---- MODULE Spec2Model ----
(***************************************************************************)
(* Schedule Network Engine of project_recovery: dependency graph building  *)
(* and validation (dag_engine.py), the CPM solver and the calendar         *)
(* converter (cpm_engine.py) and the delay propagation engine              *)
(* (forecasting_engine.py).                                                *)
(*                                                                         *)
(* Calendar dates are day numbers; day 0 is a Monday, so d % 7 is the      *)
(* weekday (0 = Mon .. 6 = Sun) and the weekmask '1111100' makes the days  *)
(* with d % 7 < 5 the business days.                                       *)
(***************************************************************************)
EXTENDS Integers, Sequences, FiniteSets, TLC

\* A missing value (Python None / NaN / NaT) of a field that holds a number.
None == 0 - 1
\* A date field that pd.to_datetime rejects
InvalidDate == 0 - 2

\* ---------------------------------------------------------------- bounds
\* Lags of the dependency tokens are drawn from {-MaxLag, 0, MaxLag}.
MaxLag == 1
\* Durations are drawn from {-1, 0, 2, MaxDur}.
MaxDur == 5
\* A network given to run_cpm has at most MaxEdges edges.
MaxEdges == 2
\* A predecessor_id field has at most MaxTokens segments.
MaxTokens == 2
\* The dates of the activity tables lie MaxSlip days around a Friday.
MaxSlip == 3

Nodes == {1, 2, 3}
DepTypes == {"FS", "SS", "FF", "SF"}
Lags == {0 - MaxLag, 0, MaxLag}
\* calculate_durations returns the planned or remaining duration when it is
\* positive and otherwise np.busday_count(planned_start, planned_finish + 1),
\* which is 0 for missing dates and negative for a start after the finish.
DurationValues == {0 - 1, 0, 2, MaxDur}
\* The project start dates given to the calendar converter: one whole week,
\* Monday (day 70) to Sunday (day 76).
FirstAnchor == 70
AnchorDates == FirstAnchor..(FirstAnchor + 6)

\* ------------------------------------------------------- generic helpers
RECURSIVE SetMax(_)
SetMax(S) ==
    LET x == CHOOSE y \in S : TRUE
    IN  IF S = {x} THEN x
        ELSE LET m == SetMax(S \ {x}) IN IF x > m THEN x ELSE m

RECURSIVE SetMin(_)
SetMin(S) ==
    LET x == CHOOSE y \in S : TRUE
    IN  IF S = {x} THEN x
        ELSE LET m == SetMin(S \ {x}) IN IF x < m THEN x ELSE m

Range(s) == {s[i] : i \in 1..Len(s)}

Reverse(s) == [i \in 1..Len(s) |-> s[Len(s) + 1 - i]]

\* ------------------------------------------------------ business calendar
\* np.is_busday(d, weekmask='1111100')
IsBusday(d) == d % 7 < 5

\* roll='forward': the first business day that is not before d
RECURSIVE RollForward(_)
RollForward(d) == IF IsBusday(d) THEN d ELSE RollForward(d + 1)

\* np.busday_offset(d, n, roll='forward', weekmask='1111100'): roll d forward
\* to a business day, then step n business days (backwards when n < 0)
RECURSIVE StepBusdays(_, _)
StepBusdays(d, n) ==
    IF n = 0 THEN d
    ELSE IF n > 0 THEN StepBusdays(RollForward(d + 1), n - 1)
    ELSE StepBusdays(IF IsBusday(d - 1) THEN d - 1
                     ELSE IF IsBusday(d - 2) THEN d - 2 ELSE d - 3, n + 1)

\* An offset counted in calendar days
BusdayOffsetCalendar(d, n) == RollForward(d) + n

BusdayOffset(d, n) == StepBusdays(RollForward(d), n)

\* np.busday_count(b, e, weekmask='1111100') for b <= e: business days in [b, e)
BusdayCount(b, e) == Cardinality({d \in b..(e - 1) : IsBusday(d)})

\* ------------------------------------------------------------- the graph
\* A networkx DiGraph: the node set and, per ordered pair, the edge
\* attributes {type, lag}.
Predecessors(g, n) == {u \in g.nodes : <<u, n>> \in DOMAIN g.edge}
Successors(g, n) == {v \in g.nodes : <<n, v>> \in DOMAIN g.edge}

\* nx.is_directed_acyclic_graph(g): some order of the nodes puts every edge
\* forward
RECURSIVE HasCycleFrom(_, _)
HasCycleFrom(g, S) ==
    \* S: nodes not yet removed; remove nodes without predecessor in S
    IF S = {} THEN FALSE
    ELSE LET free == {n \in S : Predecessors(g, n) \cap S = {}}
         IN  IF free = {} THEN TRUE ELSE HasCycleFrom(g, S \ free)

IsDirectedAcyclicGraph(g) == ~HasCycleFrom(g, g.nodes)

\* The orders nx.topological_sort(g) may return: every permutation of the
\* nodes in which each edge goes from an earlier to a later position.
NodeOrders(S) ==
    {s \in [1..Cardinality(S) -> S] : \A i, j \in 1..Cardinality(S) : i # j => s[i] # s[j]}

PosIn(s, n) == CHOOSE i \in 1..Len(s) : s[i] = n

\* Every order of the nodes, whatever the edges
AnyNodeOrders(g) == NodeOrders(g.nodes)

TopologicalOrders(g) ==
    {s \in NodeOrders(g.nodes) :
        \A p \in DOMAIN g.edge : PosIn(s, p[1]) < PosIn(s, p[2])}

\* ------------------------------------------------------------------ state
VARIABLES
    pc,               \* position in the call chain
    G,                \* the graph: [nodes, edge]
    durations,        \* cpm_engine: durations = calculate_durations(df)
    topo_order,       \* run_cpm: list(nx.topological_sort(G))
    pos,              \* run_cpm: index of the loop over topo_order
    es, ef, ls, lf,   \* run_cpm: the four offset dicts
    project_finish,   \* run_cpm: max(ef.values())
    cpm_results,      \* run_cpm: the returned dict
    project_start_date, \* convert_offsets_to_dates: the anchor argument
    p_start,          \* convert_offsets_to_dates: the rolled anchor
    enriched_results, \* convert_offsets_to_dates: the returned dict
    df_ids,           \* build_dag_and_validate: the activity_id column of df
    row,              \* build_dag_and_validate: index of the second pass
    preds_str,        \* build_dag_and_validate: the field of the current row
    valid_ids,        \* build_dag_and_validate: the registered IDs
    validation_results, \* build_dag_and_validate: the status map
    cycles_done,      \* build_dag_and_validate: the cycles already marked
    df,               \* calculate_forecasts: the activity table, by activity_id
    busday_swap_fix,  \* whether the numpy build has the busday_count fix for begin > end
    ordered_nodes,    \* calculate_forecasts: the visiting order
    fc_pos,           \* calculate_forecasts: index of the loop over ordered_nodes
    results,          \* calculate_forecasts: the result dict
    g_order,          \* the iteration order of the graph object G, once it is used
    prev_results,     \* the result map an earlier call on the same inputs returned
    tokens,           \* a list of dependency tokens to be written as a string
    dep_str,          \* parse_dependency_string: the argument
    parsed_deps,      \* parse_dependency_string: the returned list
    plan_df,          \* calculate_durations: the activity table, by row
    target_date,      \* calculate_delay_metric_days: first argument
    baseline_date,    \* calculate_delay_metric_days: second argument
    delay_days        \* calculate_delay_metric_days: the returned number

cpmVars == <<durations, topo_order, pos, es, ef, ls, lf, project_finish,
             cpm_results, project_start_date, p_start, enriched_results>>

dateVars == <<project_start_date, p_start, enriched_results>>

dagVars == <<df_ids, row, preds_str, valid_ids, validation_results, cycles_done>>

fcVars == <<df, busday_swap_fix, ordered_nodes, fc_pos, results, g_order, prev_results>>

parseVars == <<tokens, dep_str, parsed_deps>>

metricVars == <<target_date, baseline_date, delay_days>>

fnVars == <<parseVars, plan_df, metricVars>>

vars == <<pc, G, cpmVars, dagVars, fcVars, fnVars>>

\* The variables of a component that is not running
CpmIdle ==
    /\ durations = <<>>
    /\ topo_order = <<>>
    /\ pos = 0
    /\ es = <<>> /\ ef = <<>> /\ ls = <<>> /\ lf = <<>>
    /\ project_finish = None
    /\ cpm_results = <<>>
    /\ project_start_date = None
    /\ p_start = None
    /\ enriched_results = <<>>

DagIdle ==
    /\ df_ids = <<>>
    /\ row = 0
    /\ preds_str = <<>>
    /\ valid_ids = {}
    /\ validation_results = <<>>
    /\ cycles_done = {}

FcIdle ==
    /\ df = <<>>
    /\ busday_swap_fix = FALSE
    /\ ordered_nodes = <<>>
    /\ fc_pos = 0
    /\ results = <<>>
    /\ g_order = <<>>
    /\ prev_results = <<>>

ParseIdle ==
    /\ tokens = <<>>
    /\ dep_str = <<>>
    /\ parsed_deps = <<>>

DurIdle == plan_df = <<>>

MetricIdle ==
    /\ target_date = None
    /\ baseline_date = None
    /\ delay_days = 0

FnIdle == ParseIdle /\ DurIdle /\ MetricIdle

\* ------------------------------------------------------------ CPM solver
\* Networks without cycle over Nodes, as build_dag_and_validate builds them:
\* no self-loop, one edge per ordered pair, type and lag on every edge.
ForwardPairs == {p \in Nodes \X Nodes : p[1] < p[2]}

CpmEdgeSets == {E \in SUBSET ForwardPairs : Cardinality(E) <= MaxEdges}

CpmGraphs ==
    UNION {{[nodes |-> Nodes, edge |-> e] :
                e \in [E -> [type : DepTypes, lag : Lags]]} : E \in CpmEdgeSets}

\* A forward constraint that leaves the lag out
ForwardConstraintNoLag(g, d, e_s, e_f, pred, node) ==
    LET edge == g.edge[<<pred, node>>]
    IN  CASE edge.type = "FS" -> e_f[pred]
          [] edge.type = "SS" -> e_s[pred]
          [] edge.type = "FF" -> e_f[pred] - d[node]
          [] edge.type = "SF" -> e_s[pred] - d[node]

\* One constraint of the forward pass: the edge pred -> node
ForwardConstraint(g, d, e_s, e_f, pred, node) ==
    LET edge == g.edge[<<pred, node>>]
    IN  CASE edge.type = "FS" -> e_f[pred] + edge.lag
          [] edge.type = "SS" -> e_s[pred] + edge.lag
          [] edge.type = "FF" -> e_f[pred] + edge.lag - d[node]
          [] edge.type = "SF" -> e_s[pred] + edge.lag - d[node]

\* A backward pass that leaves the node's duration out of the SS and SF bounds
BackwardConstraintNoDuration(g, d, l_s, l_f, node, succ) ==
    LET edge == g.edge[<<node, succ>>]
    IN  CASE edge.type = "FS" -> l_s[succ] - edge.lag
          [] edge.type = "SS" -> l_s[succ] - edge.lag
          [] edge.type = "FF" -> l_f[succ] - edge.lag
          [] edge.type = "SF" -> l_f[succ] - edge.lag

\* One constraint of the backward pass: the edge node -> succ
BackwardConstraint(g, d, l_s, l_f, node, succ) ==
    LET edge == g.edge[<<node, succ>>]
    IN  CASE edge.type = "FS" -> l_s[succ] - edge.lag
          [] edge.type = "SS" -> l_s[succ] - edge.lag + d[node]
          [] edge.type = "FF" -> l_f[succ] - edge.lag
          [] edge.type = "SF" -> l_f[succ] - edge.lag + d[node]

\* A forward pass that clamps the early start at the project start
NodeEsClamped(g, d, e_s, e_f, node) ==
    SetMax({0} \cup {ForwardConstraint(g, d, e_s, e_f, pred, node) :
                        pred \in Predecessors(g, node)})

NodeEs(g, d, e_s, e_f, node) ==
    IF Predecessors(g, node) = {} THEN 0
    ELSE SetMax({ForwardConstraint(g, d, e_s, e_f, pred, node) :
                    pred \in Predecessors(g, node)})

\* A late finish that ignores the successors
NodeLfProjectFinish(g, d, l_s, l_f, pf, node) == pf

NodeLf(g, d, l_s, l_f, pf, node) ==
    IF Successors(g, node) = {} THEN pf
    ELSE SetMin({BackwardConstraint(g, d, l_s, l_f, node, succ) :
                    succ \in Successors(g, node)})

Abs(x) == IF x < 0 THEN 0 - x ELSE x

\* A critical flag that is set for negative float only
IsCriticalNegativeOnly(total_float) == total_float < 0

\* is_critical = abs(total_float) < 0.0001, or total_float < 0
IsCritical(total_float) == Abs(total_float) = 0 \/ total_float < 0

\* A record whose float is measured from the late finish
CpmRecordFloatFromFinish(e_s, e_f, l_s, l_f, n) ==
    [ES |-> e_s[n], EF |-> e_f[n], LS |-> l_s[n], LF |-> l_f[n],
     total_float_days |-> l_f[n] - e_s[n],
     on_critical_path |-> IsCritical(l_f[n] - e_s[n])]

CpmRecord(e_s, e_f, l_s, l_f, n) ==
    [ES |-> e_s[n], EF |-> e_f[n], LS |-> l_s[n], LF |-> l_f[n],
     total_float_days |-> l_s[n] - e_s[n],
     on_critical_path |-> IsCritical(l_s[n] - e_s[n])]

\* run_cpm up to the start of the forward pass: the durations of the
\* activity table, the acyclicity check, the topological order, es = ef = 0.
RunCpmBegin ==
    /\ pc = "cpm_start"
    /\ IsDirectedAcyclicGraph(G)
    /\ \E d \in [G.nodes -> DurationValues], t \in TopologicalOrders(G) :
          /\ durations' = d
          /\ topo_order' = t
    /\ es' = [n \in G.nodes |-> 0]
    /\ ef' = [n \in G.nodes |-> 0]
    /\ pos' = 1
    /\ pc' = "forward"
    /\ UNCHANGED <<G, ls, lf, project_finish, cpm_results, dateVars>>

\* One iteration of the forward loop
ForwardStep ==
    /\ pc = "forward"
    /\ pos <= Len(topo_order)
    /\ LET node == topo_order[pos]
           node_es == NodeEs(G, durations, es, ef, node)
       IN  /\ es' = [es EXCEPT ![node] = node_es]
           /\ ef' = [ef EXCEPT ![node] = node_es + durations[node]]
    /\ pos' = pos + 1
    /\ UNCHANGED <<pc, G, durations, topo_order, ls, lf, project_finish,
                   cpm_results, dateVars>>

\* project_finish = max(ef.values()); ls = lf = project_finish
ProjectFinish ==
    /\ pc = "forward"
    /\ pos > Len(topo_order)
    /\ project_finish' = SetMax(Range(ef))
    /\ ls' = [n \in G.nodes |-> project_finish']
    /\ lf' = [n \in G.nodes |-> project_finish']
    /\ pos' = 1
    /\ pc' = "backward"
    /\ UNCHANGED <<G, durations, topo_order, es, ef, cpm_results, dateVars>>

\* One iteration of the backward loop, over reversed(topo_order)
BackwardStep ==
    /\ pc = "backward"
    /\ pos <= Len(topo_order)
    /\ LET node == Reverse(topo_order)[pos]
           node_lf == NodeLf(G, durations, ls, lf, project_finish, node)
       IN  /\ lf' = [lf EXCEPT ![node] = node_lf]
           /\ ls' = [ls EXCEPT ![node] = node_lf - durations[node]]
    /\ pos' = pos + 1
    /\ UNCHANGED <<pc, G, durations, topo_order, es, ef, project_finish,
                   cpm_results, dateVars>>

\* The result loop and the return of run_cpm; the locals of the call end here
CpmResults ==
    /\ pc = "backward"
    /\ pos > Len(topo_order)
    /\ cpm_results' = [n \in G.nodes |-> CpmRecord(es, ef, ls, lf, n)]
    /\ topo_order' = <<>>
    /\ pos' = 0
    /\ pc' = "cpm_done"
    /\ UNCHANGED <<G, durations, es, ef, ls, lf, project_finish, dateVars>>

\* ---------------------------------------------------- calendar converter
\* A finish date that is the exclusive offset for every duration
FinishDateExclusive(anchor, off, dur) == BusdayOffset(anchor, off)

\* The calendar date of the finish offset off of an activity of duration dur:
\* the inclusive last working day when dur > 0, the offset itself otherwise
FinishDate(anchor, off, dur) ==
    IF dur > 0 THEN BusdayOffset(anchor, off - 1) ELSE BusdayOffset(anchor, off)

\* An anchor rolled back to the Friday before a weekend
RollAnchorBackward(d) ==
    IF IsBusday(d) THEN d ELSE IF IsBusday(d - 1) THEN d - 1 ELSE d - 2

\* np.busday_offset(p_start, 0, roll='forward')
RollAnchor(d) == BusdayOffset(d, 0)

EnrichedRecord(anchor, data, dur) ==
    [ES |-> data.ES, EF |-> data.EF, LS |-> data.LS, LF |-> data.LF,
     total_float_days |-> data.total_float_days,
     on_critical_path |-> data.on_critical_path,
     ES_date |-> BusdayOffset(anchor, data.ES),
     EF_date |-> FinishDate(anchor, data.EF, dur),
     LS_date |-> BusdayOffset(anchor, data.LS),
     LF_date |-> FinishDate(anchor, data.LF, dur),
     planned_duration |-> dur]

\* convert_offsets_to_dates(cpm_results, project_start_date, durations), as
\* app.py calls it on the result of run_cpm. cpm_results.copy() is a shallow
\* copy: the per-activity dicts the loop writes to are those of cpm_results.
ConvertOffsetsToDates ==
    /\ pc = "cpm_done"
    /\ \E d \in AnchorDates :
          /\ project_start_date' = d
          /\ p_start' = RollAnchor(d)
    /\ enriched_results' =
          [n \in DOMAIN cpm_results |->
              EnrichedRecord(p_start', cpm_results[n], durations[n])]
    /\ cpm_results' = enriched_results'
    /\ pc' = "dates_done"
    /\ UNCHANGED <<G, durations, topo_order, pos, es, ef, ls, lf, project_finish>>

InitCpm ==
    /\ pc = "cpm_start"
    /\ G \in CpmGraphs
    /\ CpmIdle
    /\ DagIdle
    /\ FcIdle
    /\ FnIdle

NextCpm ==
    \/ RunCpmBegin /\ UNCHANGED <<dagVars, fcVars, fnVars>>
    \/ ForwardStep /\ UNCHANGED <<dagVars, fcVars, fnVars>>
    \/ ProjectFinish /\ UNCHANGED <<dagVars, fcVars, fnVars>>
    \/ BackwardStep /\ UNCHANGED <<dagVars, fcVars, fnVars>>
    \/ CpmResults /\ UNCHANGED <<dagVars, fcVars, fnVars>>
    \/ ConvertOffsetsToDates /\ UNCHANGED <<dagVars, fcVars, fnVars>>

SpecCpm == InitCpm /\ [][NextCpm]_vars

\* ------------------------------------------------ the diamond network
\* 1 -> 2 -> 4 and 1 -> 3 -> 4, every edge FS with lag 0, as test_cpm.py
\* builds it from the fields "", "1FS", "1FS", "2FS;3FS"
DiamondNodes == 1..4
DiamondEdges == {<<1, 2>>, <<1, 3>>, <<2, 4>>, <<3, 4>>}
DiamondGraph == [nodes |-> DiamondNodes,
                 edge |-> [p \in DiamondEdges |-> [type |-> "FS", lag |-> 0]]]

InitDiamond ==
    /\ pc = "cpm_start"
    /\ G = DiamondGraph
    /\ CpmIdle
    /\ DagIdle
    /\ FcIdle
    /\ FnIdle

SpecDiamond == InitDiamond /\ [][NextCpm]_vars

\* ---------------------------------------------- network builder/validator
\* activity_id values int() rejects: a non-numeric string raises ValueError,
\* None raises TypeError
NonNumericId == 0 - 2
NullId == None

\* validation_results key of the rows whose ID is not an integer ("UNKNOWN")
Unknown == 0

\* The activity_id columns of the tables given to build_dag_and_validate
TableIds == {<<1, 2, 3>>, <<1, 2, NonNumericId>>, <<1, 2, 2>>, <<1, NullId, 3>>}

\* One ';'-separated segment of a predecessor_id string: a well-formed token
\* <id><TYPE><lag> or text DEPENDENCY_REGEX does not match
Malformed == [predecessor_id |-> 0, type |-> "??", lag |-> 0]

\* The tokens 1FS, 2FS, 3FS and, so that one predecessor can be named with
\* two different types and lags, 1SS+<MaxLag>d
Segments ==
    {[predecessor_id |-> q, type |-> "FS", lag |-> 0] : q \in Nodes}
    \cup {[predecessor_id |-> 1, type |-> "SS", lag |-> MaxLag]}
    \cup {Malformed}

\* The predecessor_id fields: NaN/blank (no segment) or up to MaxTokens segments
DepFields == UNION {[1..k -> Segments] : k \in 0..MaxTokens}

\* A status is the list of the errors of an activity; "OK" is the empty list.
StatusOk == <<>>
ErrInvalidId == [kind |-> "InvalidId", ref |-> 0, path |-> <<>>]
ErrSelf(q) == [kind |-> "SelfDependency", ref |-> q, path |-> <<>>]
ErrMissing(q) == [kind |-> "MissingPredecessor", ref |-> q, path |-> <<>>]
ErrMalformed == [kind |-> "Malformed", ref |-> 0, path |-> <<>>]
\* "ERROR: Cycle detected (<path>)" and the appended "; Cycle detected"
ErrCycle(c) == [kind |-> "Cycle", ref |-> 0, path |-> c]
ErrCycleAppended == [kind |-> "Cycle", ref |-> 0, path |-> <<>>]

\* A parse that gives up only when the first segment does not match
ParseRaisesFirstSegmentOnly(field) == Len(field) >= 1 /\ field[1] = Malformed

\* parse_dependency_string: the tokens in input order, or ValueError when
\* some segment does not match
ParseRaises(field) == \E i \in 1..Len(field) : field[i] = Malformed

\* An add_edge that leaves the attributes of an existing edge as they are
AddEdgeKeepFirst(g, u, v, attr) ==
    [nodes |-> g.nodes \cup {u, v},
     edge |-> [p \in DOMAIN g.edge \cup {<<u, v>>} |->
                  IF p \in DOMAIN g.edge THEN g.edge[p] ELSE attr]]

\* G.add_edge(pred_id, act_id, type=..., lag=...): adds the edge or overwrites
\* the attributes of the existing edge
AddEdge(g, u, v, attr) ==
    [nodes |-> g.nodes \cup {u, v},
     edge |-> [p \in DOMAIN g.edge \cup {<<u, v>>} |->
                  IF p = <<u, v>> THEN attr ELSE g.edge[p]]]

\* A token loop that keeps the first error but goes on adding the edges of
\* the tokens after it
RECURSIVE TokenLoopNoBreak(_, _, _, _, _)
TokenLoopNoBreak(g, act_id, deps, i, valid) ==
    IF i > Len(deps) THEN [g |-> g, status |-> StatusOk]
    ELSE LET dep == deps[i]
             pred_id == dep.predecessor_id
             fails == pred_id = act_id \/ pred_id \notin valid
             rest == TokenLoopNoBreak(IF fails THEN g
                                      ELSE AddEdge(g, pred_id, act_id,
                                                   [type |-> dep.type, lag |-> dep.lag]),
                                      act_id, deps, i + 1, valid)
         IN  IF pred_id = act_id
             THEN [g |-> rest.g, status |-> <<ErrSelf(pred_id)>>]
             ELSE IF pred_id \notin valid
                  THEN [g |-> rest.g, status |-> <<ErrMissing(pred_id)>>]
             ELSE rest

\* The token loop of one activity: edges for the tokens before the first
\* self or missing reference, whose error becomes the status
RECURSIVE TokenLoop(_, _, _, _, _)
TokenLoop(g, act_id, deps, i, valid) ==
    IF i > Len(deps) THEN [g |-> g, status |-> StatusOk]
    ELSE LET dep == deps[i]
             pred_id == dep.predecessor_id
         IN  IF pred_id = act_id THEN [g |-> g, status |-> <<ErrSelf(pred_id)>>]
             ELSE IF pred_id \notin valid
                  THEN [g |-> g, status |-> <<ErrMissing(pred_id)>>]
             ELSE TokenLoop(AddEdge(g, pred_id, act_id,
                                    [type |-> dep.type, lag |-> dep.lag]),
                            act_id, deps, i + 1, valid)

\* nx.simple_cycles(G): every simple cycle once, as a list of its nodes
\* starting at any of them; SimpleCycles has each cycle starting at its
\* smallest node.
IsCyclePath(g, c) ==
    /\ Len(c) >= 1
    /\ \A i, j \in 1..Len(c) : i # j => c[i] # c[j]
    /\ \A i \in 1..Len(c) : <<c[i], c[IF i = Len(c) THEN 1 ELSE i + 1]>> \in DOMAIN g.edge

SimpleCycles(g) ==
    {c \in UNION {[1..k -> g.nodes] : k \in 1..Cardinality(g.nodes)} :
        IsCyclePath(g, c) /\ \A i \in 1..Len(c) : c[1] <= c[i]}

Rotate(c, k) == [i \in 1..Len(c) |-> c[((i + k - 1) % Len(c)) + 1]]

\* A marking loop that leaves a node alone once it has an error
RECURSIVE MarkCycleOkOnly(_, _, _)
MarkCycleOkOnly(vr, cycle, i) ==
    IF i > Len(cycle) THEN vr
    ELSE LET node == cycle[i]
             current == IF node \in DOMAIN vr THEN vr[node] ELSE StatusOk
             new == IF current = StatusOk THEN <<ErrCycle(cycle)>> ELSE current
         IN  MarkCycleOkOnly([k \in DOMAIN vr \cup {node} |-> IF k = node THEN new ELSE vr[k]],
                             cycle, i + 1)

\* The marking loop for one cycle: a node with status OK gets the cycle
\* error with the path, any other node gets "; Cycle detected" appended
RECURSIVE MarkCycle(_, _, _)
MarkCycle(vr, cycle, i) ==
    IF i > Len(cycle) THEN vr
    ELSE LET node == cycle[i]
             current == IF node \in DOMAIN vr THEN vr[node] ELSE StatusOk
             new == IF current = StatusOk THEN <<ErrCycle(cycle)>>
                    ELSE Append(current, ErrCycleAppended)
         IN  MarkCycle([k \in DOMAIN vr \cup {node} |-> IF k = node THEN new ELSE vr[k]],
                       cycle, i + 1)

SetStatus(vr, key, status) ==
    [k \in DOMAIN vr \cup {key} |-> IF k = key THEN status ELSE vr[k]]

\* First pass: the rows whose ID is an integer become nodes
DagAddNodes ==
    /\ pc = "dag_start"
    /\ valid_ids' = {df_ids[i] : i \in 1..Len(df_ids)} \cap Nodes
    /\ G' = [nodes |-> valid_ids', edge |-> <<>>]
    /\ row' = 1
    /\ pc' = "dag_edges"
    /\ UNCHANGED <<df_ids, preds_str, validation_results, cycles_done>>

\* Second pass, a row whose ID is not numeric: recorded under "UNKNOWN"
DagRowInvalidId ==
    /\ pc = "dag_edges"
    /\ row <= Len(df_ids)
    /\ df_ids[row] = NonNumericId
    /\ validation_results' = SetStatus(validation_results, Unknown, <<ErrInvalidId>>)
    /\ row' = row + 1
    /\ UNCHANGED <<pc, G, df_ids, preds_str, valid_ids, cycles_done>>

\* Second pass, a row whose ID is None: int(None) raises TypeError, which
\* line 87 does not catch
DagRowRaises ==
    /\ pc = "dag_edges"
    /\ row <= Len(df_ids)
    /\ df_ids[row] = NullId
    /\ pc' = "dag_raised"
    /\ UNCHANGED <<G, df_ids, row, preds_str, valid_ids, validation_results, cycles_done>>

\* Second pass, a row with an integer ID: its predecessor_id field is parsed
\* and its tokens are turned into edges
DagRow ==
    /\ pc = "dag_edges"
    /\ row <= Len(df_ids)
    /\ df_ids[row] \in Nodes
    /\ \E field \in DepFields :
          LET act_id == df_ids[row]
              r == TokenLoop(G, act_id, field, 1, valid_ids)
          IN  /\ preds_str' = field
              /\ IF field = <<>>
                 THEN /\ validation_results' = SetStatus(validation_results, act_id, StatusOk)
                      /\ G' = G
                 ELSE IF ParseRaises(field)
                 THEN /\ validation_results' =
                            SetStatus(validation_results, act_id, <<ErrMalformed>>)
                      /\ G' = G
                 ELSE /\ validation_results' = SetStatus(validation_results, act_id, r.status)
                      /\ G' = r.g
    /\ row' = row + 1
    /\ UNCHANGED <<pc, df_ids, valid_ids, cycles_done>>

\* Third pass, one iteration of the loop over the simple cycles, which
\* nx.simple_cycles lists in any order and each in any rotation
DagMarkCycle ==
    /\ pc = "dag_edges"
    /\ row > Len(df_ids)
    /\ \E c \in SimpleCycles(G) \ cycles_done :
          /\ \E k \in 0..(Len(c) - 1) :
                validation_results' = MarkCycle(validation_results, Rotate(c, k), 1)
          /\ cycles_done' = cycles_done \cup {c}
    /\ UNCHANGED <<pc, G, df_ids, row, preds_str, valid_ids>>

\* The cycles are exhausted: build_dag_and_validate returns G and the statuses
DagReturn ==
    /\ pc = "dag_edges"
    /\ row > Len(df_ids)
    /\ SimpleCycles(G) = cycles_done
    /\ pc' = "dag_done"
    /\ UNCHANGED <<G, df_ids, row, preds_str, valid_ids, validation_results, cycles_done>>

InitDag ==
    /\ pc = "dag_start"
    /\ df_ids \in TableIds
    /\ G = [nodes |-> {}, edge |-> <<>>]
    /\ row = 0
    /\ preds_str = <<>>
    /\ valid_ids = {}
    /\ validation_results = <<>>
    /\ cycles_done = {}
    /\ CpmIdle
    /\ FcIdle
    /\ FnIdle

NextDag ==
    \/ DagAddNodes /\ UNCHANGED <<cpmVars, fcVars, fnVars>>
    \/ DagRowInvalidId /\ UNCHANGED <<cpmVars, fcVars, fnVars>>
    \/ DagRowRaises /\ UNCHANGED <<cpmVars, fcVars, fnVars>>
    \/ DagRow /\ UNCHANGED <<cpmVars, fcVars, fnVars>>
    \/ DagMarkCycle /\ UNCHANGED <<cpmVars, fcVars, fnVars>>
    \/ DagReturn /\ UNCHANGED <<cpmVars, fcVars, fnVars>>

SpecDag == InitDag /\ [][NextDag]_vars

\* ------------------------------------------------ delay propagation engine
Friday == FirstAnchor + 4

\* np.busday_count(s, e) for any s and e: negative when s > e, where builds
\* of numpy before the fix count [e, s) and builds with the fix count (e, s]
BusdayCountSigned(s, e, fix) ==
    IF s <= e THEN BusdayCount(s, e)
    ELSE IF fix THEN 0 - BusdayCount(e + 1, s + 1)
    ELSE 0 - BusdayCount(e, s)

\* count_working_days(start, end, inclusive=True)
CountWorkingDays(start, end, fix) ==
    IF start = None \/ end = None THEN 0
    ELSE BusdayCountSigned(start, end, fix) + (IF IsBusday(end) THEN 1 ELSE 0)

\* A delay that is the calendar-day difference
CalculateDelayMetricDaysCalendar(target, baseline) ==
    IF target \in {None, InvalidDate} \/ baseline \in {None, InvalidDate} THEN 0
    ELSE target - baseline

\* calculate_delay_metric_days(target_date, baseline_date): 0 when a date is
\* missing (NaT) or the conversion raises
CalculateDelayMetricDays(target, baseline) ==
    IF target \in {None, InvalidDate} \/ baseline \in {None, InvalidDate} THEN 0
    ELSE IF target >= baseline THEN BusdayCount(baseline, target)
    ELSE 0 - BusdayCount(target, baseline)

\* A row of the activity table; a node of the graph may have no row
NoRow ==
    [present |-> FALSE, actual_start |-> None, actual_finish |-> None,
     baseline_1_start |-> None, baseline_1_finish |-> None,
     ES_date |-> None, EF_date |-> None, planned_duration |-> None]

MakeRow(actual, baseline, cpm, dur) ==
    [present |-> TRUE, actual_start |-> actual[1], actual_finish |-> actual[2],
     baseline_1_start |-> baseline[1], baseline_1_finish |-> baseline[2],
     ES_date |-> cpm[1], EF_date |-> cpm[2], planned_duration |-> dur]

\* Rows of the networks with several activities: not started, in progress or
\* finished (with or without actual start); no baseline, a baseline before or
\* after the forecasts; with or without CPM dates; planned duration 2.
PropagationRows ==
    {MakeRow(a, b, c, 2) :
        a \in {<<None, None>>, <<Friday, None>>, <<Friday, Friday + MaxSlip>>,
               <<None, Friday + MaxSlip>>},
        b \in {<<None, None>>, <<Friday - MaxSlip, Friday>>,
               <<Friday + MaxSlip + 1, Friday + 2 * MaxSlip>>},
        c \in {<<None, None>>, <<Friday + MaxSlip, Friday + MaxSlip + 1>>}}
    \cup {NoRow}

\* Rows of the single-activity tables: every field missing or one of four
\* dates (a weekday before the Friday, the Friday, the Saturday, a weekday
\* after the weekend), every kind of planned duration: missing, negative
\* (-2), zero and positive.
FcDates == {Friday - MaxSlip, Friday, Friday + 1, Friday + MaxSlip}
OptionalDates == FcDates \cup {None}
PlannedDurations == (DurationValues \ {None}) \cup {None, 0 - 2, 1}

FullRows ==
    [present : {TRUE}, actual_start : OptionalDates, actual_finish : OptionalDates,
     baseline_1_start : OptionalDates, baseline_1_finish : OptionalDates,
     ES_date : OptionalDates, EF_date : OptionalDates,
     planned_duration : PlannedDurations]
    \cup {NoRow}

\* The networks given to calculate_forecasts: no edge, a chain, a join, a
\* fork, and one with the cycle 1 -> 2 -> 1
FcEdgeSets ==
    {{}, {<<1, 2>>, <<2, 3>>}, {<<1, 3>>, <<2, 3>>}, {<<1, 2>>, <<1, 3>>},
     {<<1, 2>>, <<2, 1>>, <<2, 3>>}}

FcGraph(ns, E) == [nodes |-> ns, edge |-> [p \in E |-> [type |-> "FS", lag |-> 0]]]

\* The forecast finish of an activity in progress that takes the planned
\* duration as the offset
InProgressFinishExclusive(act_start, plan_dur) ==
    IF plan_dur > 0 THEN BusdayOffset(act_start, plan_dur) ELSE act_start

\* The forecast finish of an activity in progress: the actual start plus
\* plan_dur - 1 business days, or the actual start itself
InProgressFinish(act_start, plan_dur) ==
    IF plan_dur > 0 THEN BusdayOffset(act_start, plan_dur - 1) ELSE act_start

\* The delay a predecessor hands on, taken from its actual finish
CarriedFromActual(g, table, res, pred) ==
    IF pred \in DOMAIN res /\ table[pred].present
          /\ table[pred].actual_finish # None /\ table[pred].baseline_1_finish # None
    THEN {CalculateDelayMetricDays(table[pred].actual_finish,
                                   table[pred].baseline_1_finish)}
    ELSE {}

\* A delay handed on by a predecessor that has no result yet, taken from the
\* finish its row will give it
CarriedFromRow(g, table, res, pred) ==
    LET r == table[pred]
        ffin == IF pred \in DOMAIN res THEN res[pred].forecast_finish_date
                ELSE IF r.actual_finish # None THEN r.actual_finish
                ELSE IF r.actual_start # None
                     THEN InProgressFinish(r.actual_start,
                                           IF r.planned_duration = None THEN 0
                                           ELSE r.planned_duration)
                ELSE r.EF_date
    IN  IF r.present /\ ffin # None /\ r.baseline_1_finish # None
        THEN {CalculateDelayMetricDays(ffin, r.baseline_1_finish)}
        ELSE {}

\* The delay a predecessor hands on: its forecast finish of this run against
\* its baseline finish, nothing when either is missing or the predecessor
\* has no result or no row
CarriedFrom(g, table, res, pred) ==
    IF pred \in DOMAIN res /\ table[pred].present
          /\ res[pred].forecast_finish_date # None
          /\ table[pred].baseline_1_finish # None
    THEN {CalculateDelayMetricDays(res[pred].forecast_finish_date,
                                   table[pred].baseline_1_finish)}
    ELSE {}

\* delay_carried_in = max(0, max(carried_delays))
DelayCarriedIn(g, table, res, node) ==
    SetMax({0} \cup UNION {CarriedFrom(g, table, res, pred) :
                              pred \in Predecessors(g, node)})

\* A total schedule delay that is the finish variance alone
TotalScheduleDelayFinishOnly(r, forecast_start, forecast_fin) ==
    IF r.baseline_1_finish # None /\ forecast_fin # None
    THEN CalculateDelayMetricDays(forecast_fin, r.baseline_1_finish)
    ELSE 0

\* total_schedule_delay = max(start_var, fin_var)
TotalScheduleDelay(r, forecast_start, forecast_fin) ==
    LET start_var == IF r.baseline_1_start # None /\ forecast_start # None
                     THEN CalculateDelayMetricDays(forecast_start, r.baseline_1_start)
                     ELSE 0
        fin_var == IF r.baseline_1_finish # None /\ forecast_fin # None
                   THEN CalculateDelayMetricDays(forecast_fin, r.baseline_1_finish)
                   ELSE 0
    IN  IF start_var > fin_var THEN start_var ELSE fin_var

\* A task-created delay without the clamp at 0
TaskCreatedDelayUnclamped(total, carried) == total - carried

\* task_created_delay = max(0, total_schedule_delay - delay_carried_in)
TaskCreatedDelay(total, carried) ==
    IF total - carried > 0 THEN total - carried ELSE 0

DefaultResult ==
    [percent_complete |-> 0, actual_duration |-> 0, baseline_1_duration |-> 0,
     remaining_duration_days |-> 0, forecast_start_date |-> None,
     forecast_finish_date |-> None, delay_carried_in |-> 0,
     total_schedule_delay |-> 0, task_created_delay |-> 0, delay_absorbed |-> 0]

\* The body of the loop for one node
ForecastNode(g, table, res, node, fix) ==
    LET r == table[node]
        plan_dur == IF r.planned_duration = None THEN 0 ELSE r.planned_duration
        finished == r.actual_finish # None
        started == r.actual_start # None
        fstart == IF finished \/ started THEN r.actual_start ELSE r.ES_date
        ffin == IF finished THEN r.actual_finish
                ELSE IF started THEN InProgressFinish(r.actual_start, plan_dur)
                ELSE r.EF_date
        carried == DelayCarriedIn(g, table, res, node)
        total == TotalScheduleDelay(r, fstart, ffin)
        created == TaskCreatedDelay(total, carried)
    IN  IF ~r.present THEN DefaultResult
        ELSE [percent_complete |-> IF finished THEN 100 ELSE 0,
              actual_duration |->
                  IF finished THEN CountWorkingDays(r.actual_start, r.actual_finish, fix)
                  ELSE 0,
              baseline_1_duration |->
                  IF r.baseline_1_start # None /\ r.baseline_1_finish # None
                  THEN CountWorkingDays(r.baseline_1_start, r.baseline_1_finish, fix)
                  ELSE 0,
              remaining_duration_days |-> IF finished THEN 0 ELSE plan_dur,
              forecast_start_date |-> fstart,
              forecast_finish_date |-> ffin,
              delay_carried_in |-> carried,
              total_schedule_delay |-> total,
              task_created_delay |-> created,
              delay_absorbed |-> carried - created]

\* A result dict that starts from what the variable still holds
NewResultsKept == results

\* results = {}
NewResults == <<>>

\* calculate_forecasts up to the loop: the row lookup and the visiting order,
\* a topological order of an acyclic graph and the node order otherwise. The
\* order networkx gives for a graph object is the same at every call.
FcBegin ==
    /\ pc = "fc_start"
    /\ ordered_nodes' \in IF g_order # <<>> THEN {g_order}
                          ELSE IF IsDirectedAcyclicGraph(G) THEN TopologicalOrders(G)
                          ELSE NodeOrders(G.nodes)
    /\ g_order' = ordered_nodes'
    /\ fc_pos' = 1
    /\ results' = NewResults
    /\ pc' = "fc_loop"
    /\ UNCHANGED <<G, df, busday_swap_fix, prev_results>>

\* One iteration of the loop over ordered_nodes
FcVisit ==
    /\ pc = "fc_loop"
    /\ fc_pos <= Len(ordered_nodes)
    /\ LET node == ordered_nodes[fc_pos]
           res == ForecastNode(G, df, results, node, busday_swap_fix)
       IN  results' = [n \in DOMAIN results \cup {node} |->
                          IF n = node THEN res ELSE results[n]]
    /\ fc_pos' = fc_pos + 1
    /\ UNCHANGED <<pc, G, df, busday_swap_fix, ordered_nodes, g_order, prev_results>>

\* The loop is over: calculate_forecasts returns results
FcReturn ==
    /\ pc = "fc_loop"
    /\ fc_pos > Len(ordered_nodes)
    /\ ordered_nodes' = <<>>
    /\ fc_pos' = 0
    /\ pc' = "fc_done"
    /\ UNCHANGED <<G, df, busday_swap_fix, results, g_order, prev_results>>

NextForecast ==
    \/ FcBegin /\ UNCHANGED <<cpmVars, dagVars, fnVars>>
    \/ FcVisit /\ UNCHANGED <<cpmVars, dagVars, fnVars>>
    \/ FcReturn /\ UNCHANGED <<cpmVars, dagVars, fnVars>>

\* Networks of three activities. No row of PropagationRows has a start after
\* its finish, so np.busday_count is never called with swapped arguments.
InitForecast ==
    /\ pc = "fc_start"
    /\ G \in {FcGraph(Nodes, E) : E \in FcEdgeSets}
    /\ df \in [Nodes -> PropagationRows]
    /\ busday_swap_fix = FALSE
    /\ ordered_nodes = <<>>
    /\ fc_pos = 0
    /\ results = <<>>
    /\ g_order = <<>>
    /\ prev_results = <<>>
    /\ CpmIdle
    /\ DagIdle
    /\ FnIdle

SpecForecast == InitForecast /\ [][NextForecast]_vars

\* A table with one activity
InitForecastRow ==
    /\ pc = "fc_start"
    /\ G = FcGraph({1}, {})
    /\ df \in [{1} -> FullRows]
    /\ busday_swap_fix \in BOOLEAN
    /\ ordered_nodes = <<>>
    /\ fc_pos = 0
    /\ results = <<>>
    /\ g_order = <<>>
    /\ prev_results = <<>>
    /\ CpmIdle
    /\ DagIdle
    /\ FnIdle

SpecForecastRow == InitForecastRow /\ [][NextForecast]_vars

\* ------------------------------------------- the gate in front of run_cpm
\* A gate that looks at the first error of each status only
HasCyclesFirstErrorOnly(vr) ==
    \E k \in DOMAIN vr : vr[k] # StatusOk /\ vr[k][1].kind = "Cycle"

\* has_cycles = any("Cycle" in str(val) for val in dep_validation.values())
HasCycles(vr) ==
    \E k \in DOMAIN vr : \E i \in 1..Len(vr[k]) : vr[k][i].kind = "Cycle"

\* app.py after build_dag_and_validate has returned: run_cpm is called only
\* when no status contains "Cycle"
AppGate ==
    /\ pc = "dag_done"
    /\ pc' = IF HasCycles(validation_results) THEN "cpm_skipped" ELSE "cpm_call"
    /\ UNCHANGED <<G, cpmVars, dagVars, fcVars, fnVars>>

\* run_cpm up to its acyclicity check: ValueError("Graph contains cycles...")
\* or on to the topological sort
RunCpmCheck ==
    /\ pc = "cpm_call"
    /\ pc' = IF IsDirectedAcyclicGraph(G) THEN "cpm_start" ELSE "cpm_raised"
    /\ UNCHANGED <<G, cpmVars, dagVars, fcVars, fnVars>>

\* The graphs a caller may hand to run_cpm directly: any edges over Nodes,
\* self-loops and cycles included
AnyEdgeSets == {E \in SUBSET (Nodes \X Nodes) : Cardinality(E) <= MaxEdges}

InitCpmCall ==
    /\ pc = "cpm_call"
    /\ G \in {FcGraph(Nodes, E) : E \in AnyEdgeSets}
    /\ CpmIdle
    /\ DagIdle
    /\ FcIdle
    /\ FnIdle

\* run_cpm called directly on any graph, or behind the gate on the graph that
\* build_dag_and_validate has built; a call that passes the check continues
\* as SpecCpm describes from pc = "cpm_start"
NextCpmCall ==
    \/ NextDag
    \/ AppGate
    \/ RunCpmCheck

SpecCpmCall == (InitDag \/ InitCpmCall) /\ [][NextCpmCall]_vars

\* ---------------------------------------------- dependency notation parser
\* A Python str is the sequence of its characters; NullString is an argument
\* that is no str (None, NaN).
NullString == <<"None">>

DigitChars == <<"0", "1", "2", "3", "4", "5", "6", "7", "8", "9">>
IsDigit(c) == \E i \in 1..10 : DigitChars[i] = c
DigitValue(c) == (CHOOSE i \in 1..10 : DigitChars[i] = c) - 1

\* int() of a string of digits
RECURSIVE IntOfDigits(_)
IntOfDigits(t) ==
    IF t = <<>> THEN 0
    ELSE 10 * IntOfDigits(SubSeq(t, 1, Len(t) - 1)) + DigitValue(t[Len(t)])

\* int() of a string of digits with an optional sign
IntOfSigned(t) ==
    IF t[1] = "-" THEN 0 - IntOfDigits(Tail(t))
    ELSE IF t[1] = "+" THEN IntOfDigits(Tail(t))
    ELSE IntOfDigits(t)

\* str.strip() for blanks
RECURSIVE StripLeft(_)
StripLeft(t) == IF t # <<>> /\ t[1] = " " THEN StripLeft(Tail(t)) ELSE t

RECURSIVE StripRight(_)
StripRight(t) ==
    IF t # <<>> /\ t[Len(t)] = " " THEN StripRight(SubSeq(t, 1, Len(t) - 1)) ELSE t

Strip(t) == StripRight(StripLeft(t))

\* dep_str.split(";"): cur is the part in progress
RECURSIVE SplitAt(_, _)
SplitAt(t, cur) ==
    IF t = <<>> THEN <<cur>>
    ELSE IF t[1] = ";" THEN <<cur>> \o SplitAt(Tail(t), <<>>)
    ELSE SplitAt(Tail(t), Append(cur, t[1]))

\* parts = [p.strip() for p in dep_str.split(";") if p.strip()]
Parts(t) ==
    LET raw == SplitAt(t, <<>>)
    IN  SelectSeq([i \in 1..Len(raw) |-> Strip(raw[i])], LAMBDA q : q # <<>>)

\* DEPENDENCY_REGEX = ^(?P<id>\d+)(?P<type>FS|SS|FF|SF)(?P<lag>[+-]?\d+d)?$
RECURSIVE DigitPrefixLen(_)
DigitPrefixLen(t) ==
    IF t # <<>> /\ IsDigit(t[1]) THEN 1 + DigitPrefixLen(Tail(t)) ELSE 0

TypeOf(a, b) ==
    CASE a = "F" /\ b = "S" -> "FS"
      [] a = "S" /\ b = "S" -> "SS"
      [] a = "F" /\ b = "F" -> "FF"
      [] a = "S" /\ b = "F" -> "SF"
      [] OTHER -> "??"

\* The group lag: [+-]?\d+d
IsLagText(t) ==
    /\ Len(t) >= 2
    /\ t[Len(t)] = "d"
    /\ LET body == SubSeq(t, 1, Len(t) - 1)
           digits == IF body[1] \in {"+", "-"} THEN Tail(body) ELSE body
       IN  digits # <<>> /\ \A i \in 1..Len(digits) : IsDigit(digits[i])

\* DEPENDENCY_REGEX.match(part) and match.groupdict()
MatchDependency(part) ==
    LET k == DigitPrefixLen(part)
        rest == SubSeq(part, k + 1, Len(part))
        lag_str == SubSeq(rest, 3, Len(rest))
    IN  IF /\ k >= 1
           /\ Len(rest) >= 2
           /\ TypeOf(rest[1], rest[2]) \in DepTypes
           /\ (lag_str = <<>> \/ IsLagText(lag_str))
        THEN [matched |-> TRUE, id |-> SubSeq(part, 1, k),
              type |-> TypeOf(rest[1], rest[2]), lag |-> lag_str]
        ELSE [matched |-> FALSE, id |-> <<>>, type |-> "??", lag |-> <<>>]

\* A lag that loses its sign
LagDaysUnsigned(lag_str) ==
    IF lag_str = <<>> THEN 0
    ELSE LET body == SubSeq(lag_str, 1, Len(lag_str) - 1)
         IN  IntOfDigits(IF body[1] \in {"+", "-"} THEN Tail(body) ELSE body)

\* lag_days = int(lag_str.replace('d', '')), 0 without the group
LagDays(lag_str) ==
    IF lag_str = <<>> THEN 0
    ELSE IntOfSigned(SubSeq(lag_str, 1, Len(lag_str) - 1))

\* The loop over the parts: the tokens in input order, or ValueError at the
\* first part that does not match
RECURSIVE ParseParts(_, _, _)
ParseParts(parts, i, acc) ==
    IF i > Len(parts) THEN [raised |-> FALSE, deps |-> acc]
    ELSE LET m == MatchDependency(parts[i])
         IN  IF ~m.matched THEN [raised |-> TRUE, deps |-> <<>>]
             ELSE ParseParts(parts, i + 1,
                             Append(acc, [predecessor_id |-> IntOfDigits(m.id),
                                          type |-> m.type,
                                          lag |-> LagDays(m.lag)]))

\* parse_dependency_string(dep_str)
ParseDependencyString(t) ==
    IF t = NullString \/ Strip(t) = <<>> THEN [raised |-> FALSE, deps |-> <<>>]
    ELSE ParseParts(Parts(t), 1, <<>>)

\* The notation of a token list: <id><TYPE><lag> segments joined by ';'.
\* str() of a natural number
RECURSIVE StrOfNat(_)
StrOfNat(n) ==
    IF n < 10 THEN <<DigitChars[n + 1]>>
    ELSE StrOfNat(n \div 10) \o <<DigitChars[(n % 10) + 1]>>

TypeChars(t) ==
    CASE t = "FS" -> <<"F", "S">>
      [] t = "SS" -> <<"S", "S">>
      [] t = "FF" -> <<"F", "F">>
      [] t = "SF" -> <<"S", "F">>

\* The ways to write a lag: always signed ("+2d", "-1d", "+0d"), signed
\* with a zero lag left out ("3FS"), or without the plus sign ("2d", "0d")
LagStyles == {"signed", "omit", "plain"}

LagText(lag, style) ==
    IF lag < 0 THEN <<"-">> \o StrOfNat(0 - lag) \o <<"d">>
    ELSE IF lag = 0 /\ style = "omit" THEN <<>>
    ELSE IF style = "plain" THEN StrOfNat(lag) \o <<"d">>
    ELSE <<"+">> \o StrOfNat(lag) \o <<"d">>

TokenText(tok, style) ==
    StrOfNat(tok.predecessor_id) \o TypeChars(tok.type) \o LagText(tok.lag, style)

Separators == {<<";">>, <<";", " ">>}

RECURSIVE Serialize(_, _, _)
Serialize(toks, style, sep) ==
    IF toks = <<>> THEN <<>>
    ELSE IF Len(toks) = 1 THEN TokenText(toks[1], style)
    ELSE TokenText(toks[1], style) \o sep \o Serialize(Tail(toks), style, sep)

\* Well-formed tokens: one- and two-digit IDs, 0 included; every type; a
\* lead, no lag and a two-digit lag
TokenIds == {0, 12}
TokenLags == {0 - MaxLag, 0, 10 * MaxLag + 2}
Tokens == [predecessor_id : TokenIds, type : DepTypes, lag : TokenLags]
TokenLists == UNION {[1..k -> Tokens] : k \in 0..MaxTokens}

\* Arguments that are no notation of a token list: null, empty, blank, only
\* separators, an empty segment between tokens, blanks around a token, and
\* segments that match in part only (no 'd', no ID, a wrong type, no digits
\* in the lag, text after the lag), alone or after a well-formed segment
RawStrings ==
    {NullString, <<>>, <<" ">>, <<" ", ";", " ">>,
     <<"3", "F", "S", ";", ";", "2", "S", "S">>,
     <<" ", "3", "F", "S", " ">>,
     <<"2", "F", "S", "+", "1">>,
     <<"F", "S">>,
     <<"2", "X", "S">>,
     <<"2", "F", "S", "-", "d">>,
     <<"2", "F", "S", "+", "1", "d", "d">>,
     <<"3", "F", "S", ";", "2", "F", "S", "+", "1">>}

\* The token list is written as a string
WriteTokens ==
    /\ pc = "tokens"
    /\ \E style \in LagStyles, sep \in Separators :
          dep_str' = Serialize(tokens, style, sep)
    /\ pc' = "rt_call"
    /\ UNCHANGED <<tokens, parsed_deps>>

\* parse_dependency_string(dep_str) returns the list or raises ValueError
ParseCall ==
    /\ pc \in {"rt_call", "parse_call"}
    /\ LET r == ParseDependencyString(dep_str)
       IN  /\ parsed_deps' = r.deps
           /\ pc' = IF pc = "rt_call"
                    THEN (IF r.raised THEN "rt_raised" ELSE "rt_done")
                    ELSE (IF r.raised THEN "parse_raised" ELSE "parse_done")
    /\ UNCHANGED <<tokens, dep_str>>

InitParse ==
    /\ \/ pc = "tokens" /\ tokens \in TokenLists /\ dep_str = <<>>
       \/ pc = "parse_call" /\ tokens = <<>> /\ dep_str \in RawStrings
    /\ parsed_deps = <<>>
    /\ G = [nodes |-> {}, edge |-> <<>>]
    /\ CpmIdle
    /\ DagIdle
    /\ FcIdle
    /\ DurIdle
    /\ MetricIdle

NextParse ==
    \/ WriteTokens /\ UNCHANGED <<G, cpmVars, dagVars, fcVars, plan_df, metricVars>>
    \/ ParseCall /\ UNCHANGED <<G, cpmVars, dagVars, fcVars, plan_df, metricVars>>

SpecParse == InitParse /\ [][NextParse]_vars

\* --------------------------------------- the two engines that walk the graph
\* run_cpm with the calendar conversion, or calculate_forecasts
InitTraversal == InitCpm \/ InitForecast

NextTraversal == NextCpm \/ NextForecast

SpecTraversal == InitTraversal /\ [][NextTraversal]_vars

\* ------------------------------- a second run in another topological order
\* The caller keeps the map run_cpm returned and calls run_cpm again with the
\* same df and an equal graph whose topological sort may come out in another
\* order; the durations of the same df are the same
CpmCallReordered ==
    /\ pc = "cpm_done"
    /\ prev_results = <<>>
    /\ prev_results' = cpm_results
    /\ topo_order' \in TopologicalOrders(G)
    /\ es' = [n \in G.nodes |-> 0]
    /\ ef' = [n \in G.nodes |-> 0]
    /\ pos' = 1
    /\ pc' = "forward"
    /\ UNCHANGED <<G, durations, ls, lf, project_finish, cpm_results, dateVars,
                   df, busday_swap_fix, ordered_nodes, fc_pos, results, g_order>>

\* The same for calculate_forecasts: the order of the graph is drawn again
FcCallReordered ==
    /\ pc = "fc_done"
    /\ prev_results = <<>>
    /\ prev_results' = results
    /\ g_order' = <<>>
    /\ pc' = "fc_start"
    /\ UNCHANGED <<G, df, busday_swap_fix, ordered_nodes, fc_pos, results, cpmVars>>

NextReorder ==
    \/ RunCpmBegin /\ UNCHANGED <<dagVars, fcVars, fnVars>>
    \/ ForwardStep /\ UNCHANGED <<dagVars, fcVars, fnVars>>
    \/ ProjectFinish /\ UNCHANGED <<dagVars, fcVars, fnVars>>
    \/ BackwardStep /\ UNCHANGED <<dagVars, fcVars, fnVars>>
    \/ CpmResults /\ UNCHANGED <<dagVars, fcVars, fnVars>>
    \/ CpmCallReordered /\ UNCHANGED <<dagVars, fnVars>>
    \/ NextForecast
    \/ FcCallReordered /\ UNCHANGED <<dagVars, fnVars>>

SpecReorder == InitTraversal /\ [][NextReorder]_vars

\* ------------------------------------------- calculate_forecasts, called twice
\* The caller keeps the returned map and calls calculate_forecasts again with
\* the same df and the same G
FcCallAgain ==
    /\ pc = "fc_done"
    /\ prev_results = <<>>
    /\ prev_results' = results
    /\ pc' = "fc_start"
    /\ UNCHANGED <<G, df, busday_swap_fix, ordered_nodes, fc_pos, results, g_order>>

NextForecastTwice ==
    \/ NextForecast
    \/ FcCallAgain /\ UNCHANGED <<cpmVars, dagVars, fnVars>>

SpecForecastTwice == InitForecast /\ [][NextForecastTwice]_vars

\* ------------------------------------------------ the delay metric alone
\* The dates given to calculate_delay_metric_days: every day of a range that
\* holds two weekends, a missing date and an invalid one
MetricDates == ((Friday - MaxSlip)..(Friday + 2 * MaxSlip)) \cup {None, InvalidDate}

CalculateDelayMetric ==
    /\ pc = "metric_call"
    /\ delay_days' = CalculateDelayMetricDays(target_date, baseline_date)
    /\ pc' = "metric_done"
    /\ UNCHANGED <<G, cpmVars, dagVars, fcVars, parseVars, plan_df,
                   target_date, baseline_date>>

InitDelayMetric ==
    /\ pc = "metric_call"
    /\ target_date \in MetricDates
    /\ baseline_date \in MetricDates
    /\ delay_days = 0
    /\ G = [nodes |-> {}, edge |-> <<>>]
    /\ CpmIdle
    /\ DagIdle
    /\ FcIdle
    /\ ParseIdle
    /\ DurIdle

NextDelayMetric == CalculateDelayMetric

SpecDelayMetric == InitDelayMetric /\ [][NextDelayMetric]_vars

\* ------------------------------------------------------ duration resolver
\* A duration field that float() rejects
NotANumber == 0 - 3

\* The rows given to calculate_durations: an integer or non-numeric ID; the
\* planned duration missing, non-numeric, zero, negative or positive; the
\* remaining duration missing, zero or positive; each planned date missing,
\* invalid, or one of FcDates (so that the start can be after the finish)
PlanRows ==
    [activity_id : {1, NonNumericId},
     planned_duration : {None, NotANumber, 0, 0 - 2, 2, MaxDur},
     remaining_duration_days : {None, 0, 3},
     planned_start : FcDates \cup {None, InvalidDate},
     planned_finish : FcDates \cup {None, InvalidDate}]

\* pd.notna(v), float(v) succeeds and dur_val > 0
IsPositiveDuration(v) == v # None /\ v # NotANumber /\ v > 0

\* The body of the loop for one row: the duration written to durations, or
\* nothing when the ID or a date raises ValueError (continue)
RowDuration(r, fix) ==
    IF r.activity_id \notin Nodes THEN [set |-> FALSE, value |-> 0]
    ELSE IF IsPositiveDuration(r.planned_duration)
         THEN [set |-> TRUE, value |-> r.planned_duration]
    ELSE IF IsPositiveDuration(r.remaining_duration_days)
         THEN [set |-> TRUE, value |-> r.remaining_duration_days]
    ELSE IF r.planned_start = InvalidDate \/ r.planned_finish = InvalidDate
         THEN [set |-> FALSE, value |-> 0]
    ELSE IF r.planned_start = None \/ r.planned_finish = None
         THEN [set |-> TRUE, value |-> 0]
    ELSE [set |-> TRUE,
          value |-> BusdayCountSigned(r.planned_start, r.planned_finish + 1, fix)]

\* The loop over the rows: a later row with the same ID overwrites
RECURSIVE DurationsOf(_, _, _, _)
DurationsOf(table, i, acc, fix) ==
    IF i > Len(table) THEN acc
    ELSE LET d == RowDuration(table[i], fix)
             id == table[i].activity_id
         IN  DurationsOf(table, i + 1,
                         IF d.set
                         THEN [k \in DOMAIN acc \cup {id} |->
                                  IF k = id THEN d.value ELSE acc[k]]
                         ELSE acc,
                         fix)

\* calculate_durations(df)
CalculateDurations ==
    /\ pc = "dur_call"
    /\ durations' = DurationsOf(plan_df, 1, <<>>, busday_swap_fix)
    /\ pc' = "dur_done"
    /\ UNCHANGED <<G, topo_order, pos, es, ef, ls, lf, project_finish, cpm_results,
                   dateVars, dagVars, fcVars, parseVars, plan_df, metricVars>>

InitDurations ==
    /\ pc = "dur_call"
    /\ plan_df \in [1..1 -> PlanRows]
    /\ busday_swap_fix \in BOOLEAN
    /\ G = [nodes |-> {}, edge |-> <<>>]
    /\ df = <<>> /\ ordered_nodes = <<>> /\ fc_pos = 0 /\ results = <<>>
    /\ g_order = <<>> /\ prev_results = <<>>
    /\ CpmIdle
    /\ DagIdle
    /\ ParseIdle
    /\ MetricIdle

NextDurations == CalculateDurations

SpecDurations == InitDurations /\ [][NextDurations]_vars

\* ========================================== claims: builder and validator
HasCycleError(status) == \E i \in 1..Len(status) : status[i].kind = "Cycle"

\* The nodes reached from the set S in at most k further steps along edges
RECURSIVE ReachedFrom(_, _)
ReachedFrom(S, k) ==
    IF k = 0 THEN S
    ELSE ReachedFrom(S \cup {p[2] : p \in {q \in DOMAIN G.edge : q[1] \in S}}, k - 1)

\* n lies on a directed cycle of G: n is reached from one of its successors
OnCycle(n) ==
    n \in ReachedFrom({p[2] : p \in {q \in DOMAIN G.edge : q[1] = n}}, Cardinality(G.nodes))

\* Every segment of the field is a token that names a registered activity
\* other than act_id
ReferencesValid(field, act_id) ==
    \A i \in 1..Len(field) :
        /\ field[i] # Malformed
        /\ field[i].predecessor_id # act_id
        /\ field[i].predecessor_id \in valid_ids

\* C10: when build_dag_and_validate has returned, the status of an activity
\* contains a Cycle error iff the activity lies on a directed cycle of the
\* built graph, so no status contains Cycle iff the graph is acyclic; and
\* before any cycle is marked, the status written for a row is OK iff all
\* references of the row are valid (so with valid references and an acyclic
\* graph every status is OK).
C10_CycleDetection ==
    /\ pc = "dag_done" =>
          /\ \A n \in G.nodes :
                /\ n \in DOMAIN validation_results
                /\ HasCycleError(validation_results[n]) <=> OnCycle(n)
          /\ (\A k \in DOMAIN validation_results : ~HasCycleError(validation_results[k]))
                <=> (\A n \in G.nodes : ~OnCycle(n))
    /\ (pc \in {"dag_edges", "dag_done"} /\ row > 1 /\ cycles_done = {}
            /\ df_ids[row - 1] \in Nodes) =>
          (validation_results[df_ids[row - 1]] = StatusOk
              <=> ReferencesValid(preds_str, df_ids[row - 1]))

\* C10 witness: the function has returned the graph 1->2, 2->3, 3->1 and each
\* of the three statuses contains Cycle.
C10_Witness ==
    /\ pc = "dag_done"
    /\ DOMAIN G.edge = {<<1, 2>>, <<2, 3>>, <<3, 1>>}
    /\ \A n \in {1, 2, 3} : HasCycleError(validation_results[n])

\* A second C10 case: an acyclic graph with edges, all statuses OK
C10_AcyclicOk ==
    /\ pc = "dag_done"
    /\ Cardinality(DOMAIN G.edge) = 3
    /\ \A n \in G.nodes : ~OnCycle(n)
    /\ \A k \in DOMAIN validation_results : validation_results[k] = StatusOk

\* C12: build_dag_and_validate never raises for bad input: whatever the IDs
\* (integer, non-numeric, null) and the dependency fields of the table, the
\* call does not end in an exception.
C12_NeverRaises == pc # "dag_raised"

\* C13: a field with a segment that does not match the grammar fails as a
\* whole: the step of build_dag_and_validate that handles such a row gives the
\* activity the malformed-dependency status, adds no edge (not even for the
\* well-formed segments before the bad one), and leaves the status of every
\* other activity as it was.
C13_MalformedSegment ==
    [][(/\ pc = "dag_edges"
        /\ row' = row + 1
        /\ df_ids[row] \in Nodes
        /\ \E i \in 1..Len(preds_str') : preds_str'[i].type \notin DepTypes)
       => /\ G' = G
          /\ DOMAIN validation_results' = DOMAIN validation_results \cup {df_ids[row]}
          /\ Len(validation_results'[df_ids[row]]) = 1
          /\ validation_results'[df_ids[row]][1].kind = "Malformed"
          /\ \A k \in DOMAIN validation_results \ {df_ids[row]} :
                validation_results'[k] = validation_results[k]]_vars

\* C13 witness: the second row, of activity 2, had a well-formed segment
\* naming activity 1 followed by a malformed one; activity 2 has the malformed
\* status and no edge from 1, and the edge the first row added is still there.
C13_Witness ==
    /\ pc = "dag_edges"
    /\ row = 3
    /\ df_ids[2] = 2
    /\ Len(preds_str) = 2
    /\ preds_str[1].predecessor_id = 1 /\ preds_str[1].type \in DepTypes
    /\ preds_str[2].type \notin DepTypes
    /\ validation_results[2][1].kind = "Malformed"
    /\ validation_results[1] = <<>>
    /\ DOMAIN G.edge = {<<2, 1>>}

\* C14: when build_dag_and_validate has ended, every activity whose ID is not
\* an integer is outside the node set and recorded as InvalidId in the status
\* map, and every activity with an integer ID is a node and has a status
\* entry.
C14_InvalidIdRecorded ==
    pc \in {"dag_done", "dag_raised"} =>
        \A i \in 1..Len(df_ids) :
            IF df_ids[i] \in Nodes
            THEN /\ df_ids[i] \in G.nodes
                 /\ df_ids[i] \in DOMAIN validation_results
            ELSE /\ df_ids[i] \notin G.nodes
                 /\ Unknown \in DOMAIN validation_results
                 /\ \E j \in 1..Len(validation_results[Unknown]) :
                       validation_results[Unknown][j].kind = "InvalidId"

\* The same for the calls that return
C14_InvalidIdRecordedOnReturn == pc = "dag_raised" \/ C14_InvalidIdRecorded

\* ===================================================== claims: CPM solver
ForwardDone == pc \in {"backward", "cpm_done", "dates_done"}
CpmReturned == pc \in {"cpm_done", "dates_done"}

\* The constraint the edge p -> n puts on the early start of n
EarlyBound(p, n) ==
    LET e == G.edge[<<p, n>>]
    IN  IF e.type = "FS" THEN ef[p] + e.lag
        ELSE IF e.type = "SS" THEN es[p] + e.lag
        ELSE IF e.type = "FF" THEN ef[p] + e.lag - durations[n]
        ELSE es[p] + e.lag - durations[n]

\* The constraint the edge n -> s puts on the late finish of n
LateBound(n, s) ==
    LET e == G.edge[<<n, s>>]
    IN  IF e.type = "FS" THEN ls[s] - e.lag
        ELSE IF e.type = "SS" THEN ls[s] - e.lag + durations[n]
        ELSE IF e.type = "FF" THEN lf[s] - e.lag
        ELSE lf[s] - e.lag + durations[n]

IsMaxOf(x, S) == x \in S /\ \A y \in S : y <= x
IsMinOf(x, S) == x \in S /\ \A y \in S : x <= y

\* C1: once the forward pass is over, a node without predecessors has ES = 0,
\* every other node has ES = the maximum over its incoming edges of the
\* type-specific constraint (not clamped at 0), and EF = ES + duration; the
\* returned map carries these values.
C1_ForwardPass ==
    ForwardDone =>
        \A n \in G.nodes :
            LET inc == {EarlyBound(p, n) : p \in {u \in G.nodes : <<u, n>> \in DOMAIN G.edge}}
            IN  /\ IF inc = {} THEN es[n] = 0 ELSE IsMaxOf(es[n], inc)
                /\ ef[n] = es[n] + durations[n]
                /\ CpmReturned => cpm_results[n].ES = es[n] /\ cpm_results[n].EF = ef[n]

\* C1 witness: run_cpm has returned for a network in which one node has two
\* incoming edges of different types with different constraints and some
\* node has a negative early start.
C1_Witness ==
    /\ pc = "cpm_done"
    /\ \E n \in G.nodes : \E p, q \in G.nodes :
          /\ <<p, n>> \in DOMAIN G.edge /\ <<q, n>> \in DOMAIN G.edge
          /\ G.edge[<<p, n>>].type # G.edge[<<q, n>>].type
          /\ EarlyBound(p, n) < EarlyBound(q, n)
    /\ \E n \in G.nodes : cpm_results[n].ES < 0

\* C2: when run_cpm returns, project_finish = max(EF); a node without
\* successors has LF = project_finish, every other node has LF = the minimum
\* over its outgoing edges of the type-specific constraint, and
\* LS = LF - duration; the returned map carries these values.
C2_BackwardPass ==
    CpmReturned =>
        /\ IsMaxOf(project_finish, {ef[n] : n \in G.nodes})
        /\ \A n \in G.nodes :
            LET out == {LateBound(n, s) : s \in {v \in G.nodes : <<n, v>> \in DOMAIN G.edge}}
            IN  /\ IF out = {} THEN lf[n] = project_finish ELSE IsMinOf(lf[n], out)
                /\ ls[n] = lf[n] - durations[n]
                /\ cpm_results[n].LF = lf[n] /\ cpm_results[n].LS = ls[n]

\* C2 witness: run_cpm has returned for a network in which one node has an
\* outgoing SS or SF edge and a second outgoing edge with a different bound,
\* and its duration is not 0.
C2_Witness ==
    /\ pc = "cpm_done"
    /\ \E n \in G.nodes : \E s, t \in G.nodes :
          /\ <<n, s>> \in DOMAIN G.edge /\ <<n, t>> \in DOMAIN G.edge
          /\ G.edge[<<n, s>>].type \in {"SS", "SF"}
          /\ durations[n] # 0
          /\ LateBound(n, s) < LateBound(n, t)
          /\ cpm_results[n].LF = LateBound(n, s)

\* C3: in every returned result, total float = LS - ES = LF - EF, and the
\* activity is flagged critical exactly when its total float is <= 0.
C3_FloatAndCritical ==
    CpmReturned =>
        \A n \in G.nodes :
            LET r == cpm_results[n]
            IN  /\ r.total_float_days = r.LS - r.ES
                /\ r.total_float_days = r.LF - r.EF
                /\ r.on_critical_path <=> (r.total_float_days <= 0)

\* C3 witness: a returned result with a critical activity (float 0) and an
\* activity that has float and is not flagged.
C3_Witness ==
    /\ pc = "cpm_done"
    /\ \E n, m \in G.nodes :
          /\ cpm_results[n].total_float_days = 0 /\ cpm_results[n].on_critical_path
          /\ cpm_results[m].total_float_days > 0 /\ ~cpm_results[m].on_critical_path

\* ============================================= claims: calendar converter
\* x is the business day k business days after (before, for k < 0) the
\* business day a
IsBusdaysFrom(x, a, k) ==
    /\ IsBusday(x)
    /\ IF k >= 0 THEN x >= a /\ BusdayCount(a, x) = k
       ELSE x < a /\ BusdayCount(x, a) = 0 - k

\* C8: ES_date and LS_date are the anchor plus ES and LS business days; for
\* a duration > 0 EF_date and LF_date are the anchor plus EF - 1 and LF - 1
\* business days; for a duration of 0 they are the anchor plus EF and LF
\* business days, and ES_date = EF_date.
C8_OffsetsToDates ==
    pc = "dates_done" =>
        \A n \in DOMAIN enriched_results :
            LET r == enriched_results[n]
            IN  /\ IsBusdaysFrom(r.ES_date, p_start, r.ES)
                /\ IsBusdaysFrom(r.LS_date, p_start, r.LS)
                /\ durations[n] > 0 =>
                      /\ IsBusdaysFrom(r.EF_date, p_start, r.EF - 1)
                      /\ IsBusdaysFrom(r.LF_date, p_start, r.LF - 1)
                /\ durations[n] = 0 =>
                      /\ IsBusdaysFrom(r.EF_date, p_start, r.EF)
                      /\ IsBusdaysFrom(r.LF_date, p_start, r.LF)
                      /\ r.ES_date = r.EF_date

\* C8 witness: converted results with a milestone, and an activity of positive
\* duration whose early dates lie in different weeks and whose early start is
\* before the anchor.
C8_Witness ==
    /\ pc = "dates_done"
    /\ \E n \in DOMAIN enriched_results : durations[n] = 0
    /\ \E n \in DOMAIN enriched_results :
          /\ durations[n] > 0
          /\ enriched_results[n].ES < 0
          /\ enriched_results[n].EF_date - enriched_results[n].ES_date > durations[n] - 1

SignedBusdays(t, b) ==
    IF t >= b THEN Cardinality({d \in b..(t - 1) : d % 7 < 5})
    ELSE 0 - Cardinality({d \in t..(b - 1) : d % 7 < 5})

Acyclic == \A n \in G.nodes : ~OnCycle(n)

\* The delays the predecessors of n hand on: forecast finish of this run
\* against baseline finish, for the predecessors that have both
HandedOn(n) ==
    {SignedBusdays(results[p].forecast_finish_date, df[p].baseline_1_finish) :
        p \in {q \in G.nodes : /\ <<q, n>> \in DOMAIN G.edge
                               /\ results[q].forecast_finish_date # None
                               /\ df[q].baseline_1_finish # None}}

\* C4: when calculate_forecasts has returned for an acyclic network, the
\* DelayCarriedIn of every activity of the table is max(0, max over its
\* predecessors of the business-day delta between the predecessor's forecast
\* finish of this run and its baseline finish); a predecessor without
\* forecast finish or baseline finish contributes nothing, and an activity
\* without predecessors has 0.
C4_DelayCarriedIn ==
    (pc = "fc_done" /\ Acyclic) =>
        \A n \in G.nodes :
            df[n].present =>
                /\ IsMaxOf(results[n].delay_carried_in, {0} \cup HandedOn(n))
                /\ (\A q \in G.nodes : <<q, n>> \notin DOMAIN G.edge) =>
                      results[n].delay_carried_in = 0

\* C4 witness: an activity with two predecessors that hand on different
\* positive delays, the larger one from a predecessor that has not finished
\* (its forecast finish is not an actual finish), and a third predecessor-
\* free activity.
C4_Witness ==
    /\ pc = "fc_done"
    /\ Acyclic
    /\ \E n, p, q \in G.nodes :
          /\ <<p, n>> \in DOMAIN G.edge /\ <<q, n>> \in DOMAIN G.edge
          /\ df[n].present /\ df[p].present /\ df[q].present
          /\ df[p].actual_finish = None /\ df[q].actual_finish # None
          /\ df[p].baseline_1_finish # None /\ df[q].baseline_1_finish # None
          /\ results[p].forecast_finish_date # None
          /\ 0 < SignedBusdays(results[q].forecast_finish_date, df[q].baseline_1_finish)
          /\ SignedBusdays(results[q].forecast_finish_date, df[q].baseline_1_finish)
                < SignedBusdays(results[p].forecast_finish_date, df[p].baseline_1_finish)
          /\ results[n].delay_carried_in
                = SignedBusdays(results[p].forecast_finish_date, df[p].baseline_1_finish)

\* C5: in every returned result, for every node (ahead of schedule or not,
\* with or without a row), TaskCreatedDelay = max(0, TotalScheduleDelay -
\* DelayCarriedIn), DelayAbsorbed = DelayCarriedIn - TaskCreatedDelay,
\* DelayCarriedIn >= 0 and TaskCreatedDelay >= 0.
C5_DelayDecomposition ==
    pc = "fc_done" =>
        \A n \in G.nodes :
            LET r == results[n]
            IN  /\ IsMaxOf(r.task_created_delay,
                           {0, r.total_schedule_delay - r.delay_carried_in})
                /\ r.delay_absorbed = r.delay_carried_in - r.task_created_delay
                /\ r.delay_carried_in >= 0
                /\ r.task_created_delay >= 0

\* C5 witness: a result with an activity ahead of schedule (negative total
\* delay) that has a delay carried in, an activity that creates delay, and a
\* node without a row.
C5_Witness ==
    /\ pc = "fc_done"
    /\ \E n \in G.nodes :
          results[n].total_schedule_delay < 0 /\ results[n].delay_carried_in > 0
    /\ \E n \in G.nodes : results[n].task_created_delay > 0
    /\ \E n \in G.nodes : ~df[n].present

\* One term of the total schedule delay: 0 when the baseline date or the
\* forecast date is missing
DelayTerm(forecast, baseline) ==
    IF forecast = None \/ baseline = None THEN 0 ELSE SignedBusdays(forecast, baseline)

C6_NegativeTerm ==
    /\ pc = "fc_done"
    /\ \E n \in G.nodes :
          /\ df[n].baseline_1_start = None
          /\ df[n].baseline_1_finish # None
          /\ results[n].forecast_finish_date # None
          /\ SignedBusdays(results[n].forecast_finish_date, df[n].baseline_1_finish) < 0
          /\ results[n].total_schedule_delay = 0

\* The planned duration of a row, 0 when it is missing
PlannedOrZero(r) == IF r.planned_duration = None THEN 0 ELSE r.planned_duration

\* f is the last of dur working days that start on or after the date s
IsLastWorkingDay(f, s, dur) ==
    /\ f % 7 < 5
    /\ f >= s
    /\ Cardinality({d \in s..f : d % 7 < 5}) = dur

\* C7: the actual dates alone decide the state of an activity. Finished
\* (actual finish present): PercentComplete 100, RemainingDuration 0,
\* forecast = actual start/finish. In progress (actual start, no actual
\* finish): PercentComplete 0, RemainingDuration = planned duration,
\* ForecastStart = actual start, ForecastFinish = actual start + (planned
\* duration - 1) business days, or the actual start when the duration is
\* <= 0. Not started: PercentComplete 0, RemainingDuration = planned
\* duration, forecast = ES_date/EF_date.
C7_ForecastState ==
    pc = "fc_done" =>
        \A n \in G.nodes :
            LET r == df[n]
                res == results[n]
            IN  r.present =>
                  /\ r.actual_finish # None =>
                        /\ res.percent_complete = 100
                        /\ res.remaining_duration_days = 0
                        /\ res.forecast_start_date = r.actual_start
                        /\ res.forecast_finish_date = r.actual_finish
                  /\ (r.actual_finish = None /\ r.actual_start # None) =>
                        /\ res.percent_complete = 0
                        /\ res.remaining_duration_days = PlannedOrZero(r)
                        /\ res.forecast_start_date = r.actual_start
                        /\ IF PlannedOrZero(r) > 0
                           THEN IsLastWorkingDay(res.forecast_finish_date,
                                                 r.actual_start, PlannedOrZero(r))
                           ELSE res.forecast_finish_date = r.actual_start
                  /\ (r.actual_finish = None /\ r.actual_start = None) =>
                        /\ res.percent_complete = 0
                        /\ res.remaining_duration_days = PlannedOrZero(r)
                        /\ res.forecast_start_date = r.ES_date
                        /\ res.forecast_finish_date = r.EF_date

\* C7 witness: an activity in progress whose planned duration of 2 days
\* carries its forecast finish over the weekend.
C7_Witness ==
    /\ pc = "fc_done"
    /\ \E n \in G.nodes :
          /\ df[n].actual_finish = None
          /\ df[n].actual_start = Friday
          /\ df[n].planned_duration = 2
          /\ df[n].EF_date # None
          /\ results[n].forecast_finish_date = Friday + 3

\* ================================================ claims: the run_cpm gate
\* C11: run_cpm raises the cyclic-graph error, and returns no result map,
\* exactly when its graph has a directed cycle: a raised call had a cyclic
\* graph and left no result, a call that passed the check had an acyclic
\* graph; and a call made behind the gate (no status contains Cycle) on the
\* graph build_dag_and_validate built never raises.
C11_CyclicGraphError ==
    /\ pc = "cpm_raised" => ((\E n \in G.nodes : OnCycle(n)) /\ cpm_results = <<>>)
    /\ pc = "cpm_start" => (\A n \in G.nodes : ~OnCycle(n))
    /\ df_ids # <<>> => pc # "cpm_raised"

\* C11 witness: a direct call on a graph with the cycle 1 -> 2 -> 1 has raised
C11_Witness ==
    /\ pc = "cpm_raised"
    /\ df_ids = <<>>
    /\ {<<1, 2>>, <<2, 1>>} \subseteq DOMAIN G.edge

\* Further C11 cases: the gate has kept a built cyclic graph away from
\* run_cpm, and has let a built graph with edges through
C11_GateSkips ==
    /\ pc = "cpm_skipped"
    /\ \E n \in G.nodes : OnCycle(n)

C11_GatePasses ==
    /\ pc = "cpm_start"
    /\ df_ids # <<>>
    /\ Cardinality(DOMAIN G.edge) >= 2

\* ===================================================== claims: the parser
IsBlankString(t) == t = NullString \/ \A i \in 1..Len(t) : t[i] = " "

\* C15: a list of well-formed tokens written as ';'-separated
\* <id><TYPE><signed lag>d segments parses to the same tokens (predecessor
\* ID, type, lag) in the same order, and never raises; a blank or null string
\* parses to the empty list.
C15_ParserRoundTrip ==
    /\ pc = "rt_done" => parsed_deps = tokens
    /\ pc # "rt_raised"
    /\ (pc \in {"parse_done", "parse_raised"} /\ IsBlankString(dep_str)) =>
          (pc = "parse_done" /\ parsed_deps = <<>>)

\* C15 witness: two tokens, the first with a two-digit ID and a two-digit
\* lag, the second with ID 0 and a lead, have come back from the parser.
C15_Witness ==
    /\ pc = "rt_done"
    /\ Len(tokens) = 2
    /\ tokens[1].predecessor_id > 9 /\ tokens[1].lag > 9
    /\ tokens[2].predecessor_id = 0 /\ tokens[2].lag < 0
    /\ tokens[1].type # tokens[2].type
    /\ parsed_deps = tokens

\* Further cases of the parser: a string that is blank or null has given the
\* empty list; a segment that matches in part only has failed the parse even
\* after a well-formed segment; empty segments are skipped.
C15_BlankParsed == pc = "parse_done" /\ dep_str = <<" ">> /\ parsed_deps = <<>>

C15_NullParsed == pc = "parse_done" /\ dep_str = NullString /\ parsed_deps = <<>>

C15_PartialMatchRaises ==
    /\ pc = "parse_raised"
    /\ dep_str = <<"3", "F", "S", ";", "2", "F", "S", "+", "1">>
    /\ parsed_deps = <<>>

C15_EmptySegmentSkipped ==
    /\ pc = "parse_done"
    /\ dep_str = <<"3", "F", "S", ";", ";", "2", "S", "S">>
    /\ Len(parsed_deps) = 2

\* Each of the strings with a partly matching segment raises
C15_PartialMatchesRaise ==
    (pc \in {"parse_done", "parse_raised"}
        /\ dep_str \in {<<"2", "F", "S", "+", "1">>, <<"F", "S">>, <<"2", "X", "S">>,
                        <<"2", "F", "S", "-", "d">>,
                        <<"2", "F", "S", "+", "1", "d", "d">>,
                        <<"3", "F", "S", ";", "2", "F", "S", "+", "1">>})
        => pc = "parse_raised"

\* ========================================== claims: the duration resolver
\* The duration the callers read for an ID: durations.get(id, 0)
DurationRead(id) == IF id \in DOMAIN durations THEN durations[id] ELSE 0

IsDateValue(v) == v # None /\ v # InvalidDate

\* The duration the contract gives a row: the planned duration if > 0, else
\* the remaining duration if > 0, else the number of Mon-Fri days from the
\* planned start to the planned finish, both included; 0 without two dates
ContractDuration(r) ==
    IF r.planned_duration # None /\ r.planned_duration # NotANumber /\ r.planned_duration > 0
    THEN r.planned_duration
    ELSE IF r.remaining_duration_days # None /\ r.remaining_duration_days > 0
    THEN r.remaining_duration_days
    ELSE IF IsDateValue(r.planned_start) /\ IsDateValue(r.planned_finish)
    THEN Cardinality({d \in r.planned_start..r.planned_finish : d % 7 < 5})
    ELSE 0

\* C16: the duration resolved for an activity is never negative and is the
\* planned duration if present and > 0, else the remaining duration if
\* present and > 0, else the inclusive Mon-Fri span from planned start to
\* planned finish; a missing or invalid date gives 0.
C16_DurationNonNegative ==
    pc = "dur_done" =>
        \A i \in 1..Len(plan_df) :
            plan_df[i].activity_id \in Nodes =>
                /\ DurationRead(plan_df[i].activity_id) >= 0
                /\ DurationRead(plan_df[i].activity_id) = ContractDuration(plan_df[i])

\* The same, for the rows whose planned start is not after the day that
\* follows the planned finish
C16_ExceptStartAfterFinish ==
    pc = "dur_done" =>
        \A i \in 1..Len(plan_df) :
            (/\ plan_df[i].activity_id \in Nodes
             /\ ~(/\ IsDateValue(plan_df[i].planned_start)
                  /\ IsDateValue(plan_df[i].planned_finish)
                  /\ plan_df[i].planned_start > plan_df[i].planned_finish + 1
                  /\ ContractDuration(plan_df[i]) = 0)) =>
                /\ DurationRead(plan_df[i].activity_id) >= 0
                /\ DurationRead(plan_df[i].activity_id) = ContractDuration(plan_df[i])

\* ========================================== claims: repeated forecasts
\* C17: a second call of calculate_forecasts with the same, unmodified inputs
\* returns a map equal to the one the first call returned.
C17_SameForecastTwice ==
    (pc = "fc_done" /\ prev_results # <<>>) => results = prev_results

\* The second call has returned for a cyclic network, where a predecessor is
\* read before it is visited, and some activity carries a delay
C17_Witness ==
    /\ pc = "fc_done"
    /\ prev_results # <<>>
    /\ ~IsDirectedAcyclicGraph(G)
    /\ \E n \in DOMAIN results : results[n].delay_carried_in > 0

\* ========================================== claims: inputs are left alone
\* C18: no engine operation changes what it is given: over every step of
\* run_cpm and convert_offsets_to_dates the graph is unchanged, and the CPM
\* result map handed to convert_offsets_to_dates, with its per-activity
\* entries, and the durations are the same after the call as before it.
C18_InputsUnchanged ==
    [][/\ G' = G
       /\ pc = "cpm_done" => (cpm_results' = cpm_results /\ durations' = durations)]_vars

\* What does hold: the call leaves the graph, the durations and the keys and
\* offsets of the result map as they were
C18_OffsetsUnchanged ==
    [][/\ G' = G
       /\ pc = "cpm_done" =>
             /\ durations' = durations
             /\ DOMAIN cpm_results' = DOMAIN cpm_results
             /\ \A n \in DOMAIN cpm_results :
                   \A f \in DOMAIN cpm_results[n] :
                       cpm_results'[n][f] = cpm_results[n][f]]_vars

\* ========================================== claims: multi-hop chains
\* The network is the chain 1 -> 2 -> 3, every activity has a row, activity 1
\* is forecast to finish at least one business day after its baseline finish,
\* and activity 2 has a baseline and CPM dates and has not started
LateHeadOfChain ==
    /\ pc = "fc_done"
    /\ DOMAIN G.edge = {<<1, 2>>, <<2, 3>>}
    /\ \A n \in Nodes : df[n].present
    /\ df[1].baseline_1_finish # None
    /\ results[1].forecast_finish_date # None
    /\ CalculateDelayMetricDays(results[1].forecast_finish_date,
                                df[1].baseline_1_finish) > 0
    /\ df[2].actual_start = None
    /\ df[2].actual_finish = None
    /\ df[2].baseline_1_finish # None
    /\ df[2].EF_date # None

\* C19: in a chain A -> B -> C where A's forecast finish is later than its
\* baseline finish and B has not started, C's DelayCarriedIn is positive.
C19_DelayCompounds ==
    LateHeadOfChain => results[3].delay_carried_in > 0

\* What the last activity of such a chain is given: the slip of activity 2's
\* CPM early finish against its own baseline, whatever activity 1 did
C19_CarriedFromMiddleOnly ==
    LateHeadOfChain =>
        results[3].delay_carried_in =
            (IF CalculateDelayMetricDays(df[2].EF_date, df[2].baseline_1_finish) > 0
             THEN CalculateDelayMetricDays(df[2].EF_date, df[2].baseline_1_finish)
             ELSE 0)

\* ========================================== claims: the delay metric
BothDatesGiven == IsDateValue(target_date) /\ IsDateValue(baseline_date)

C20_AcrossWeekend ==
    /\ pc = "metric_done"
    /\ BothDatesGiven
    /\ delay_days > 0
    /\ delay_days < target_date - baseline_date

\* ========================================== claims: the diamond network
\* run_cpm has returned for the diamond, no duration is negative and
\* activity 2 is at least as long as activity 3
DiamondReturned ==
    /\ pc \in {"cpm_done", "dates_done"}
    /\ G = DiamondGraph
    /\ \A n \in DiamondNodes : durations[n] >= 0
    /\ durations[2] >= durations[3]

\* C21: in the diamond 1 -> 2 -> 4, 1 -> 3 -> 4 with zero-lag FS edges and
\* durations d2 >= d3 >= 0, activity 3 has total float d2 - d3 and is
\* critical only if d2 = d3, and activities 1, 2 and 4 have total float 0
\* and are critical.
C21_DiamondFloat ==
    DiamondReturned =>
        /\ cpm_results[3].total_float_days = durations[2] - durations[3]
        /\ cpm_results[3].on_critical_path <=> durations[2] = durations[3]
        /\ \A n \in {1, 2, 4} :
              /\ cpm_results[n].total_float_days = 0
              /\ cpm_results[n].on_critical_path

\* The network of test_float_and_parallel: durations 5, 5, 2, 5 and a float
\* of 3 on activity 3
C21_Witness ==
    /\ DiamondReturned
    /\ durations = <<MaxDur, MaxDur, 2, MaxDur>>
    /\ cpm_results[3].total_float_days = MaxDur - 2
    /\ ~cpm_results[3].on_critical_path

\* ========================================== claims: the token loop
\* A token of the activity act that cannot become an edge
TokenFails(tok, act) == tok.predecessor_id = act \/ tok.predecessor_id \notin valid_ids

\* The number of tokens of field in front of the first failing one
PassedTokens(field, act) ==
    IF \E i \in 1..Len(field) : TokenFails(field[i], act)
    THEN (CHOOSE i \in 1..Len(field) :
             /\ TokenFails(field[i], act)
             /\ \A j \in 1..(i - 1) : ~TokenFails(field[j], act)) - 1
    ELSE Len(field)

\* The step of the second pass for a row with an integer ID whose field has
\* tokens that all match the grammar
TokenRowStep ==
    /\ pc = "dag_edges"
    /\ row' = row + 1
    /\ df_ids[row] \in Nodes
    /\ Len(preds_str') >= 1
    /\ \A i \in 1..Len(preds_str') : preds_str'[i].type \in DepTypes

\* C22: the tokens of an activity are processed in input order; the first
\* token that names the activity itself or an unregistered ID fixes the
\* status and ends the processing, so the row adds an edge for each token in
\* front of that one (with the type and lag of the last such token naming
\* the predecessor) and nothing else; without a failing token every token
\* gives an edge and the status is OK.
C22_TokenShortCircuit ==
    [][TokenRowStep =>
        LET act == df_ids[row]
            field == preds_str'
            k == PassedTokens(field, act)
            added == {<<field[i].predecessor_id, act>> : i \in 1..k}
        IN  /\ DOMAIN G'.edge = DOMAIN G.edge \cup added
            /\ \A p \in DOMAIN G.edge \ added : G'.edge[p] = G.edge[p]
            /\ \A i \in 1..k :
                  (\A j \in (i + 1)..k : field[j].predecessor_id # field[i].predecessor_id)
                  => G'.edge[<<field[i].predecessor_id, act>>] =
                        [type |-> field[i].type, lag |-> field[i].lag]
            /\ IF k = Len(field)
               THEN validation_results'[act] = StatusOk
               ELSE /\ Len(validation_results'[act]) = 1
                    /\ validation_results'[act][1].ref = field[k + 1].predecessor_id
                    /\ validation_results'[act][1].kind =
                          (IF field[k + 1].predecessor_id = act
                           THEN "SelfDependency" ELSE "MissingPredecessor")]_vars

\* The last row processed had a passing token followed by a failing one: the
\* edge of the first exists, the status is that of the second
C22_Witness ==
    /\ pc = "dag_edges"
    /\ row >= 2
    /\ df_ids[row - 1] \in Nodes
    /\ Len(preds_str) = 2
    /\ \A i \in 1..2 : preds_str[i].type \in DepTypes
    /\ ~TokenFails(preds_str[1], df_ids[row - 1])
    /\ TokenFails(preds_str[2], df_ids[row - 1])
    /\ <<preds_str[1].predecessor_id, df_ids[row - 1]>> \in DOMAIN G.edge
    /\ validation_results[df_ids[row - 1]] # StatusOk

\* The last row processed began with a failing token followed by a passing
\* one, whose edge does not exist
C22_NothingAfterFailure ==
    /\ pc = "dag_edges"
    /\ row >= 2
    /\ df_ids[row - 1] \in Nodes
    /\ Len(preds_str) = 2
    /\ \A i \in 1..2 : preds_str[i].type \in DepTypes
    /\ TokenFails(preds_str[1], df_ids[row - 1])
    /\ ~TokenFails(preds_str[2], df_ids[row - 1])
    /\ <<preds_str[2].predecessor_id, df_ids[row - 1]>> \notin DOMAIN G.edge

\* ========================================== claims: cycle statuses
\* The entries of a status that report a cycle
CycleEntries(status) == {i \in 1..Len(status) : status[i].kind = "Cycle"}

\* The status names the cycle c: one of its cycle entries has the path of
\* c, listed from any of its nodes
NamesCycle(status, c) ==
    \E i \in CycleEntries(status) :
        \E k \in 0..(Len(c) - 1) : status[i].path = Rotate(c, k)

\* C23: when the builder returns, the status of a node carries, for each of
\* the simple cycles the node lies on, a cycle entry with the path of that
\* cycle.
C23_CyclePaths ==
    pc = "dag_done" =>
        \A c \in SimpleCycles(G) :
            \A n \in Range(c) : NamesCycle(validation_results[n], c)

\* What the returned statuses do carry: one cycle entry per cycle the node
\* lies on, after the entries of token validation; only a first entry that
\* replaced OK has a path, and it is the path of a cycle through the node
C23_CycleEntriesCounted ==
    pc = "dag_done" =>
        \A n \in G.nodes :
            LET status == validation_results[n]
                k == Cardinality({c \in SimpleCycles(G) : n \in Range(c)})
            IN  /\ Cardinality(CycleEntries(status)) = k
                /\ \A i \in CycleEntries(status) :
                      /\ \A j \in i..Len(status) : j \in CycleEntries(status)
                      /\ status[i].path # <<>> =>
                            (i = 1 /\ \E c \in SimpleCycles(G) :
                                         n \in Range(c) /\ NamesCycle(<<status[i]>>, c))
                      /\ i > 1 => status[i].path = <<>>

\* ========================================== claims: visiting order
\* The nodes a loop over order has evaluated when it is at index i
Visited(order, i) == {order[j] : j \in 1..(i - 1)}

\* C24: on an acyclic network each pass evaluates every node exactly once;
\* when the forward pass evaluates a node its predecessors have been
\* evaluated and their ES/EF do not change any more, when the backward pass
\* evaluates a node the same holds of its successors and their LS/LF, and
\* when calculate_forecasts evaluates a node its predecessors have their
\* result, which does not change any more.
C24_TopologicalVisit ==
    [][/\ (pc = "forward" /\ pos <= Len(topo_order)) =>
             LET done == Visited(topo_order, pos)
             IN  /\ topo_order[pos] \notin done
                 /\ Predecessors(G, topo_order[pos]) \subseteq done
                 /\ \A n \in done : es'[n] = es[n] /\ ef'[n] = ef[n]
       /\ (pc = "forward" /\ pos > Len(topo_order)) =>
             /\ Range(topo_order) = G.nodes
             /\ es' = es /\ ef' = ef
       /\ (pc = "backward" /\ pos <= Len(topo_order)) =>
             LET done == Visited(Reverse(topo_order), pos)
             IN  /\ Reverse(topo_order)[pos] \notin done
                 /\ Successors(G, Reverse(topo_order)[pos]) \subseteq done
                 /\ \A n \in done : ls'[n] = ls[n] /\ lf'[n] = lf[n]
                 /\ es' = es /\ ef' = ef
       /\ (pc = "backward" /\ pos > Len(topo_order)) =>
             /\ Range(topo_order) = G.nodes
             /\ \A n \in G.nodes :
                   /\ cpm_results'[n].ES = es[n] /\ cpm_results'[n].EF = ef[n]
                   /\ cpm_results'[n].LS = ls[n] /\ cpm_results'[n].LF = lf[n]
       /\ (pc = "fc_loop" /\ IsDirectedAcyclicGraph(G) /\ fc_pos <= Len(ordered_nodes)) =>
             LET done == Visited(ordered_nodes, fc_pos)
             IN  /\ ordered_nodes[fc_pos] \notin done
                 /\ DOMAIN results = done
                 /\ Predecessors(G, ordered_nodes[fc_pos]) \subseteq done
                 /\ \A n \in done : results'[n] = results[n]
       /\ (pc = "fc_loop" /\ IsDirectedAcyclicGraph(G) /\ fc_pos > Len(ordered_nodes)) =>
             /\ Range(ordered_nodes) = G.nodes
             /\ results' = results]_vars

\* The forward pass is about to evaluate a node whose two predecessors have
\* different early finishes
C24_Witness ==
    /\ pc = "forward"
    /\ pos = 3
    /\ Predecessors(G, topo_order[3]) = {topo_order[1], topo_order[2]}
    /\ ef[topo_order[1]] # ef[topo_order[2]]

\* calculate_forecasts is about to evaluate the last activity of a chain
\* whose predecessor is forecast to finish late
C24_ForecastVisit ==
    /\ pc = "fc_loop"
    /\ fc_pos = 3
    /\ DOMAIN G.edge = {<<1, 2>>, <<2, 3>>}
    /\ ordered_nodes = <<1, 2, 3>>
    /\ results[2].total_schedule_delay > 0

\* The backward pass is about to evaluate a node with two successors
C24_BackwardVisit ==
    /\ pc = "backward"
    /\ pos = 3
    /\ Successors(G, Reverse(topo_order)[3]) =
          {Reverse(topo_order)[1], Reverse(topo_order)[2]}

\* ========================================== claims: cyclic networks
\* The predecessors of n that were evaluated before n
EvaluatedBefore(n) ==
    {q \in G.nodes : /\ <<q, n>> \in DOMAIN G.edge
                     /\ PosIn(g_order, q) < PosIn(g_order, n)}

\* The delays those predecessors hand on
HandedOnBy(n, S) ==
    {SignedBusdays(results[p].forecast_finish_date, df[p].baseline_1_finish) :
        p \in {q \in S : /\ results[q].forecast_finish_date # None
                         /\ df[q].baseline_1_finish # None}}

\* C25: on a network with a cycle calculate_forecasts visits the nodes in
\* the graph's node order, each once, returns one result per node, and the
\* DelayCarriedIn of an activity counts only the predecessors evaluated
\* before it: a predecessor evaluated later contributes nothing.
C25_DegradedMode ==
    ~IsDirectedAcyclicGraph(G) =>
        /\ pc = "fc_loop" =>
              /\ ordered_nodes = g_order
              /\ ordered_nodes \in NodeOrders(G.nodes)
              /\ DOMAIN results = Visited(ordered_nodes, fc_pos)
        /\ pc = "fc_done" =>
              /\ DOMAIN results = G.nodes
              /\ \A n \in G.nodes :
                    df[n].present =>
                        IsMaxOf(results[n].delay_carried_in,
                                {0} \cup HandedOnBy(n, EvaluatedBefore(n)))

\* The function has returned for the network with the cycle 1 -> 2 -> 1 where
\* 2 was evaluated before 1: activity 1 is forecast to finish late, and
\* activity 2, evaluated first, has no carried-in delay
C25_Witness ==
    /\ pc = "fc_done"
    /\ ~IsDirectedAcyclicGraph(G)
    /\ PosIn(g_order, 2) < PosIn(g_order, 1)
    /\ df[1].baseline_1_finish # None
    /\ results[1].forecast_finish_date # None
    /\ SignedBusdays(results[1].forecast_finish_date, df[1].baseline_1_finish) > 0
    /\ df[2].present
    /\ results[2].delay_carried_in = 0

\* ========================================== claims: float
\* C26: for every acyclic network, every mix of edge types, every signed
\* lag and every integer duration, run_cpm gives every activity a total
\* float >= 0, with LS >= ES and LF >= EF; the critical flag is never set by
\* a negative float.
C26_FloatNonNegative ==
    CpmReturned =>
        \A n \in G.nodes :
            /\ cpm_results[n].total_float_days >= 0
            /\ cpm_results[n].LS >= cpm_results[n].ES
            /\ cpm_results[n].LF >= cpm_results[n].EF
            /\ cpm_results[n].on_critical_path <=> cpm_results[n].total_float_days = 0

\* run_cpm has returned for a network with a negative lag and a negative
\* duration in which some activity has float
C26_Witness ==
    /\ CpmReturned
    /\ \E p \in DOMAIN G.edge : G.edge[p].lag < 0 /\ G.edge[p].type \in {"SS", "SF"}
    /\ \E n \in G.nodes : durations[n] < 0
    /\ \E n \in G.nodes : cpm_results[n].total_float_days > 0

\* ========================================== claims: critical path
\* run_cpm has returned and no duration is negative
ReturnedNonNegative ==
    /\ CpmReturned
    /\ G.nodes # {}
    /\ \A n \in G.nodes : durations[n] >= 0

SomeCritical ==
    \E n \in G.nodes :
        cpm_results[n].on_critical_path /\ cpm_results[n].total_float_days = 0

\* The project finish is the early finish of an activity without successors
FinishAtSink ==
    \E n \in G.nodes : Successors(G, n) = {} /\ cpm_results[n].EF = project_finish

\* C27 as stated: for every non-empty acyclic network with non-negative
\* durations, whatever the edge types and lags, some activity is critical
\* with total float 0.
C27_CriticalPathExists == ReturnedNonNegative => SomeCritical

\* C27: for every non-empty acyclic network with non-negative durations in
\* which the largest early finish belongs to an activity without
\* successors, some activity is critical with total float 0.
C27_CriticalPathAtSink == (ReturnedNonNegative /\ FinishAtSink) => SomeCritical

\* A network with a negative lag and a start-to-start edge whose project
\* finish is reached by an activity without successors: that activity is
\* critical, another one has float
C27_Witness ==
    /\ ReturnedNonNegative
    /\ FinishAtSink
    /\ \E p \in DOMAIN G.edge : G.edge[p].lag < 0
    /\ \E p \in DOMAIN G.edge : G.edge[p].type = "SS"
    /\ \E n \in G.nodes : Successors(G, n) = {} /\ cpm_results[n].total_float_days = 0
    /\ \E n \in G.nodes : cpm_results[n].total_float_days > 0

\* The case the statement leaves out: every activity that reaches the
\* project finish has a successor, and no activity is critical
C27_NoCriticalActivity ==
    /\ ReturnedNonNegative
    /\ ~FinishAtSink
    /\ ~SomeCritical

\* ========================================== claims: the returned graph
\* The second pass has just processed a row with an integer ID whose field
\* has tokens that all match the grammar
TokenRowDone ==
    /\ pc = "dag_edges"
    /\ row >= 2
    /\ df_ids[row - 1] \in Nodes
    /\ Len(preds_str) >= 1
    /\ \A i \in 1..Len(preds_str) : preds_str[i].type \in DepTypes

\* C28: the graph of the builder has no self-loop, its nodes are the
\* registered integer IDs and every edge joins two of them, each ordered
\* pair has one edge with one type and one lag, and when a dependency
\* string names a predecessor in several processed tokens the edge has the
\* type and lag of the last of them.
C28_GraphStructure ==
    /\ pc \in {"dag_edges", "dag_done"} =>
          /\ G.nodes = valid_ids
          /\ G.nodes \subseteq Nodes
          /\ \A p \in DOMAIN G.edge :
                /\ p[1] # p[2]
                /\ p[1] \in valid_ids /\ p[2] \in valid_ids
                /\ G.edge[p].type \in DepTypes
                /\ G.edge[p].lag \in Int
    /\ TokenRowDone =>
          LET act == df_ids[row - 1]
              k == PassedTokens(preds_str, act)
          IN  \A q \in {preds_str[i].predecessor_id : i \in 1..k} :
                  LET last == SetMax({i \in 1..k : preds_str[i].predecessor_id = q})
                  IN  G.edge[<<q, act>>] =
                          [type |-> preds_str[last].type, lag |-> preds_str[last].lag]

\* The row of activity 2 named activity 1 twice, FS first and SS with a lag
\* last: the one edge 1 -> 2 is the SS edge
C28_Witness ==
    /\ TokenRowDone
    /\ df_ids[row - 1] = 2
    /\ Len(preds_str) = 2
    /\ preds_str[1] = [predecessor_id |-> 1, type |-> "FS", lag |-> 0]
    /\ preds_str[2] = [predecessor_id |-> 1, type |-> "SS", lag |-> MaxLag]
    /\ G.edge[<<1, 2>>] = [type |-> "SS", lag |-> MaxLag]

\* ========================================== claims: calendar round trip
\* The duration calculate_durations resolves for an activity that has only
\* the planned dates start and finish
SpanDuration(start, finish) ==
    RowDuration([activity_id |-> 1, planned_duration |-> None,
                 remaining_duration_days |-> None,
                 planned_start |-> start, planned_finish |-> finish],
                busday_swap_fix).value

\* C29: for every activity with a duration > 0 and every anchor date, the
\* four dates of convert_offsets_to_dates are Mon-Fri days, ES_date is not
\* after EF_date and LS_date not after LF_date, and the duration fallback of
\* calculate_durations applied to (ES_date, EF_date) and to (LS_date,
\* LF_date) gives the activity's duration.
C29_CalendarRoundTrip ==
    pc = "dates_done" =>
        \A n \in DOMAIN enriched_results :
            durations[n] > 0 =>
                LET r == enriched_results[n]
                IN  /\ \A d \in {r.ES_date, r.EF_date, r.LS_date, r.LF_date} : d % 7 < 5
                    /\ r.ES_date <= r.EF_date
                    /\ r.LS_date <= r.LF_date
                    /\ SpanDuration(r.ES_date, r.EF_date) = durations[n]
                    /\ SpanDuration(r.LS_date, r.LF_date) = durations[n]

\* A weekend anchor and an activity of positive duration that starts before
\* the anchor and whose early dates span a weekend
C29_Witness ==
    /\ pc = "dates_done"
    /\ project_start_date % 7 >= 5
    /\ \E n \in DOMAIN enriched_results :
          /\ durations[n] > 0
          /\ enriched_results[n].ES < 0
          /\ enriched_results[n].EF_date - enriched_results[n].ES_date > durations[n] - 1
          /\ enriched_results[n].LS_date # enriched_results[n].ES_date

\* ========================================== claims: order independence
\* C30: on an acyclic network a second run of run_cpm, and of
\* calculate_forecasts, that visits the nodes in any other topological order
\* returns the same map as the first run.
C30_OrderIndependence ==
    /\ (pc = "cpm_done" /\ prev_results # <<>>) => cpm_results = prev_results
    /\ (pc = "fc_done" /\ prev_results # <<>> /\ IsDirectedAcyclicGraph(G)) =>
          results = prev_results

\* The second run of run_cpm has returned for a network with an edge, with
\* some float, where the activity visited last is not the largest ID
C30_Witness ==
    /\ pc = "cpm_done"
    /\ prev_results # <<>>
    /\ DOMAIN G.edge # {}
    /\ \E n \in G.nodes : cpm_results[n].total_float_days > 0
    /\ \E n \in G.nodes : cpm_results[n].ES # 0

\* The second run of calculate_forecasts has returned for the join
\* 1 -> 3 <- 2 with a carried-in delay on activity 3
C30_ForecastWitness ==
    /\ pc = "fc_done"
    /\ prev_results # <<>>
    /\ DOMAIN G.edge = {<<1, 3>>, <<2, 3>>}
    /\ results[3].delay_carried_in > 0

\* On the network with a cycle the two runs can differ
C30_CyclicDiffers ==
    /\ pc = "fc_done"
    /\ prev_results # <<>>
    /\ ~IsDirectedAcyclicGraph(G)
    /\ results # prev_results

====
